---------------------------- MODULE Spec2Model ----------------------------
(***************************************************************************)
(* A model of the english-resource-generator document engine               *)
(* (src/docx_generation/docx_styles.py) and of the quiz builder that       *)
(* drives it (src/generators/quiz_generator.py).                           *)
(*                                                                         *)
(* Representation.                                                         *)
(*   - Python str values are TLA+ strings; f-strings are \o.               *)
(*   - Tri-state python attributes (None / True / False) are the strings   *)
(*     "None", "True", "False"; an attribute never written is "None".      *)
(*   - Lengths are integers in EMU, as python-docx holds them: Pt(x) is    *)
(*     x * 12700 and Cm(c) is c * 3600 with c given in hundredths of a     *)
(*     centimetre (Cm(326) is 3.26 cm); line spacings are in hundredths.   *)
(*     A length attribute never written is NoLen.                          *)
(*   - RGBColor(r, g, b) and the hexadecimal colour literals of the raw    *)
(*     markup ('F2F2F2') are both the tuple <<r, g, b>>.                   *)
(*   - A python-docx Document is a record: the section, the style table,   *)
(*     the four header/footer stories and the body, a sequence of blocks.  *)
(*   - Every primitive is an operator from the document (and arguments) to *)
(*     a result [doc, exc, ret]: the document as the call leaves it, the   *)
(*     exception it raised ("None" when it returned) and what it returned. *)
(*   - A generation request (generate_quiz_docx) is a record holding its   *)
(*     position in create_quiz_docx, its local Document, the buffer it     *)
(*     returns, and a log of the operations applied to its Document.       *)
(*   - st.session_state is a function from the keys present to their       *)
(*     values; a key never written is not in its domain.                   *)
(***************************************************************************)
EXTENDS Integers, Sequences, FiniteSets, TLC

VARIABLES
    doc,        \* the Document object of the running build
    held,       \* TRUE once setup_document has returned doc to its caller
    exc,        \* the exception the last call raised, NoExc when it returned
    call,       \* the last call: its name and arguments
    ret,        \* what the last call returned
    ncalls,     \* number of calls made so far
    requests,   \* per worker: the generation request it is serving
    clock,      \* the wall clock, in the 2-second steps a zip entry records
    host,       \* the process's standard output and the file it wrote
    llm,        \* GeminiClient.generate: the remote calls made and the outcome
    session_state   \* st.session_state of one browser session

\* what the web application adds to the document engine
appVars == <<host, llm, session_state>>

vars == <<doc, held, exc, call, ret, ncalls, requests, clock, appVars>>

-----------------------------------------------------------------------------
(* Bounds of the model                                                     *)

MaxCalls == 2

-----------------------------------------------------------------------------
(* Strings                                                                 *)

RECURSIVE Join(_, _)
Join(seq, sep) ==
    IF seq = <<>> THEN ""
    ELSE IF Len(seq) = 1 THEN seq[1]
    ELSE seq[1] \o sep \o Join(Tail(seq), sep)

Contains(s, sub) ==
    \E i \in 1..(Len(s) - Len(sub) + 1) : SubSeq(s, i, i + Len(sub) - 1) = sub

StartsWith(s, prefix) ==
    /\ Len(s) >= Len(prefix)
    /\ SubSeq(s, 1, Len(prefix)) = prefix

LowerChar(c) ==
    CASE c = "A" -> "a" [] c = "B" -> "b" [] c = "C" -> "c" [] c = "D" -> "d"
      [] c = "E" -> "e" [] c = "F" -> "f" [] c = "G" -> "g" [] c = "H" -> "h"
      [] c = "I" -> "i" [] c = "J" -> "j" [] c = "K" -> "k" [] c = "L" -> "l"
      [] c = "M" -> "m" [] c = "N" -> "n" [] c = "O" -> "o" [] c = "P" -> "p"
      [] c = "Q" -> "q" [] c = "R" -> "r" [] c = "S" -> "s" [] c = "T" -> "t"
      [] c = "U" -> "u" [] c = "V" -> "v" [] c = "W" -> "w" [] c = "X" -> "x"
      [] c = "Y" -> "y" [] c = "Z" -> "z" [] OTHER -> c

RECURSIVE Lower(_)
Lower(s) ==
    IF Len(s) = 0 THEN ""
    ELSE IF Len(s) = 1 THEN LowerChar(s)
    ELSE Lower(SubSeq(s, 1, Len(s) \div 2))
            \o Lower(SubSeq(s, Len(s) \div 2 + 1, Len(s)))

RECURSIVE Repeat(_, _)
Repeat(s, n) ==
    IF n = 0 THEN ""
    ELSE IF n = 1 THEN s
    ELSE Repeat(s, n \div 2) \o Repeat(s, n - n \div 2)

Max(a, b) == IF a >= b THEN a ELSE b
Min(a, b) == IF a <= b THEN a ELSE b

-----------------------------------------------------------------------------
(* Constants of docx_styles.py                                             *)

RGBColor(r, g, b) == <<r, g, b>>
Pt(x) == x * 12700
Cm(c) == c * 3600
None == "None"
\* the two non-ASCII characters of the source, written in ASCII
EM_DASH == "--"
CHECKBOX == "[]"
NoLen == 0 - 1
NoColour == <<>>

FONT_PRIMARY == "Aptos"
FONT_DISPLAY == "Aptos Display"

COLOUR_BLACK == RGBColor(0, 0, 0)
COLOUR_GREY == RGBColor(128, 128, 128)
COLOUR_DARK_GREY == RGBColor(64, 64, 64)
COLOUR_WHITE == RGBColor(255, 255, 255)

SIZE_TITLE == Pt(20)
SIZE_SUBTITLE == Pt(14)
SIZE_HEADING3 == Pt(12)
SIZE_BODY == Pt(12)
SIZE_CAPTION == Pt(10)
SIZE_HEADER_FOOTER == Pt(10)
SIZE_QUESTION == Pt(11)

MARGIN_TOP == Cm(100)
MARGIN_BOTTOM == Cm(100)
MARGIN_LEFT == Cm(200)
MARGIN_RIGHT == Cm(200)
PAGE_WIDTH_A4 == Cm(2100)
PAGE_HEIGHT_A4 == Cm(2970)
CONTENT_WIDTH == Cm(1700)
HEADER_HEIGHT == Cm(80)
FOOTER_HEIGHT == Cm(80)
USABLE_HEIGHT ==
    PAGE_HEIGHT_A4 - MARGIN_TOP - MARGIN_BOTTOM - HEADER_HEIGHT - FOOTER_HEIGHT

SPACING_AFTER_PARA == Pt(6)
SPACING_BEFORE_HEADING == Pt(12)
SPACING_AFTER_HEADING == Pt(6)
LINE_SPACING == 115
\* a blank line of 0.8 cm
BLANK_LINE_HEIGHT_tall == Cm(80)

BLANK_LINE_HEIGHT == Cm(70)

Roles ==
    {"heading", "body", "header_footer", "table_header_bg", "quote_bg",
     "quote_border", "instruction_bg", "instruction_border",
     "highlight_evidence", "highlight_terms", "table_border"}

\* a registry whose last theme was entered without its highlight_terms role
COLOUR_SCHEMES_short ==
    [k \in {"professional_minimal", "academic_blue", "nature_green",
            "creative_vibrant", "warm_humanities"} |->
        [r \in IF k = "warm_humanities" THEN Roles \ {"highlight_terms"}
                ELSE Roles |-> RGBColor(0, 0, 0)]]

COLOUR_SCHEMES ==
    [professional_minimal |->
        [heading |-> RGBColor(0, 0, 0),
         body |-> RGBColor(0, 0, 0),
         header_footer |-> RGBColor(64, 64, 64),
         table_header_bg |-> RGBColor(242, 242, 242),
         quote_bg |-> RGBColor(255, 250, 240),
         quote_border |-> RGBColor(64, 64, 64),
         instruction_bg |-> RGBColor(242, 242, 242),
         instruction_border |-> RGBColor(0, 0, 0),
         highlight_evidence |-> RGBColor(255, 255, 0),
         highlight_terms |-> RGBColor(242, 242, 242),
         table_border |-> RGBColor(0, 0, 0)],
     academic_blue |->
        [heading |-> RGBColor(25, 55, 109),
         body |-> RGBColor(40, 40, 40),
         header_footer |-> RGBColor(31, 78, 121),
         table_header_bg |-> RGBColor(217, 225, 242),
         quote_bg |-> RGBColor(239, 243, 249),
         quote_border |-> RGBColor(25, 55, 109),
         instruction_bg |-> RGBColor(217, 225, 242),
         instruction_border |-> RGBColor(25, 55, 109),
         highlight_evidence |-> RGBColor(255, 192, 0),
         highlight_terms |-> RGBColor(217, 225, 242),
         table_border |-> RGBColor(31, 78, 121)],
     nature_green |->
        [heading |-> RGBColor(34, 94, 56),
         body |-> RGBColor(40, 40, 40),
         header_footer |-> RGBColor(114, 145, 110),
         table_header_bg |-> RGBColor(220, 237, 220),
         quote_bg |-> RGBColor(242, 250, 242),
         quote_border |-> RGBColor(34, 94, 56),
         instruction_bg |-> RGBColor(220, 237, 220),
         instruction_border |-> RGBColor(34, 94, 56),
         highlight_evidence |-> RGBColor(218, 165, 32),
         highlight_terms |-> RGBColor(220, 237, 220),
         table_border |-> RGBColor(114, 145, 110)],
     creative_vibrant |->
        [heading |-> RGBColor(75, 0, 130),
         body |-> RGBColor(40, 40, 40),
         header_footer |-> RGBColor(147, 51, 234),
         table_header_bg |-> RGBColor(230, 220, 245),
         quote_bg |-> RGBColor(245, 240, 250),
         quote_border |-> RGBColor(75, 0, 130),
         instruction_bg |-> RGBColor(230, 220, 245),
         instruction_border |-> RGBColor(75, 0, 130),
         highlight_evidence |-> RGBColor(255, 140, 0),
         highlight_terms |-> RGBColor(230, 220, 245),
         table_border |-> RGBColor(147, 51, 234)],
     warm_humanities |->
        [heading |-> RGBColor(154, 48, 19),
         body |-> RGBColor(40, 40, 40),
         header_footer |-> RGBColor(191, 87, 0),
         table_header_bg |-> RGBColor(242, 220, 200),
         quote_bg |-> RGBColor(255, 250, 240),
         quote_border |-> RGBColor(154, 48, 19),
         instruction_bg |-> RGBColor(242, 220, 200),
         instruction_border |-> RGBColor(154, 48, 19),
         highlight_evidence |-> RGBColor(184, 134, 11),
         highlight_terms |-> RGBColor(242, 220, 200),
         table_border |-> RGBColor(191, 87, 0)]]

\* COLOUR_SCHEMES.keys(), in the dict's insertion order
SchemeKeys ==
    <<"professional_minimal", "academic_blue", "nature_green",
      "creative_vibrant", "warm_humanities">>

STYLE_TITLE == "Title"
STYLE_SUBTITLE == "Subtitle"
STYLE_HEADING1 == "Heading 1"
STYLE_HEADING2 == "Heading 2"
STYLE_BODY == "Normal"
STYLE_QUESTION == "Normal"
STYLE_CAPTION == "Caption"

-----------------------------------------------------------------------------
(* The python-docx objects the engine builds                               *)

NoExc == [type |-> "None"]

\* what a call returned: the type of the value and, for a list, its length
Ret(type, n) == [type |-> type, len |-> n]

\* a call that returned None, or raised
NoRet == Ret("NoneType", 0)

\* a call's outcome
Result(d, e, r) == [doc |-> d, exc |-> e, ret |-> r]

\* Run: a w:r element.  fld is the field character / instruction it holds
\* ("begin", "instr", "end"), brk the break it holds ("page").
Run(text) ==
    [text |-> text, bold |-> None, italic |-> None, font_name |-> None,
     size |-> NoLen, colour |-> NoColour, highlight |-> 0,
     fld |-> None, brk |-> None]

\* Paragraph: a w:p element with its paragraph_format
Paragraph(style, runs) ==
    [type |-> "p", style |-> style, runs |-> runs, alignment |-> None,
     space_before |-> NoLen, space_after |-> NoLen, line_spacing |-> 0,
     left_indent |-> NoLen, pBdr |-> None]

\* a table cell (w:tc) as add_table creates it: one empty paragraph
Cell ==
    [paragraphs |-> <<Paragraph(None, <<>>)>>, width |-> NoLen,
     shd |-> NoColour, tcBorders |-> None, border_colour |-> NoColour,
     border_sz |-> 0, tcMar |-> NoLen, vAlign |-> None]

Row(cols) ==
    [height |-> NoLen, height_rule |-> None, cells |-> [c \in 1..cols |-> Cell]]

\* doc.add_table(rows, cols) / header.add_table(rows, cols, width)
Table(rows, cols) ==
    [type |-> "tbl", style |-> None, autofit |-> None, alignment |-> None,
     tblW |-> NoLen, tblBorders |-> None,
     col_widths |-> [c \in 1..cols |-> NoLen],
     rows |-> [r \in 1..rows |-> Row(cols)]]

\* a style of the style table, before _create_styles writes it
DefaultStyle ==
    [font_name |-> None, size |-> NoLen, bold |-> None, italic |-> None,
     underline |-> None, colour |-> NoColour, alignment |-> None,
     space_before |-> NoLen, space_after |-> NoLen, line_spacing |-> 0,
     pBdr |-> None, rFonts |-> None]

StyleNames ==
    {"Normal", "Title", "Subtitle", "Heading 1", "Heading 2", "Heading 3",
     "Quote", "Caption"}

\* Document(): python-docx's default template (Letter page, no header or
\* footer definition, an empty body, no theme attribute)
Document ==
    [colour_scheme |-> None,
     colours |-> <<>>,
     section |->
        [page_width |-> 7772400, page_height |-> 10058400,
         orientation |-> "PORTRAIT",
         left_margin |-> 1143000, right_margin |-> 1143000,
         top_margin |-> 914400, bottom_margin |-> 914400,
         header_distance |-> 457200, footer_distance |-> 457200,
         different_first_page_header_footer |-> FALSE],
     styles |-> [n \in StyleNames |-> DefaultStyle],
     first_page_header |-> <<>>,
     header |-> <<>>,
     first_page_footer |-> <<>>,
     footer |-> <<>>,
     body |-> <<>>]

\* a request that holds no Document, and one that has returned no buffer
NoDocument == [type |-> "NoDocument"]

NoOut == [type |-> "NoBuffer"]

\* the workers that serve generation requests side by side
Workers == {1, 2}

\* a worker that has not been given a request yet
\* nothing printed, nothing written
NoOutput == [stdout |-> <<>>, file |-> NoOut]

\* the session of a browser that has just connected: no key is set
NewSession ==
    [keys |-> {}, authenticated |-> FALSE, user_email |-> "",
     login_time |-> 0, generated_docx |-> NoOut, generated_content |-> "",
     generated_filename |-> ""]

\* no call of GeminiClient.generate has been made
NoGeneration ==
    [remote |-> [ok |-> TRUE, text |-> "", message |-> ""], attempts |-> 0,
     exc |-> NoExc, text |-> ""]

IdleRequest ==
    [pc |-> "idle", served |-> 0, quiz_data |-> <<>>, qi |-> 1,
     doc |-> NoDocument, out |-> NoOut, exc |-> NoExc, log |-> <<>>]

-----------------------------------------------------------------------------
(* Document setup                                                          *)

_remove_style_borders(style) == [style EXCEPT !.pBdr = "nil"]

_set_style_font_xml(style, font_name) == [style EXCEPT !.rFonts = font_name]

_create_styles(d) ==
    LET colours == d.colours
        normal ==
            [DefaultStyle EXCEPT
                !.font_name = FONT_PRIMARY, !.size = SIZE_BODY,
                !.colour = colours.body,
                !.space_after = SPACING_AFTER_PARA,
                !.line_spacing = LINE_SPACING]
        title ==
            _set_style_font_xml(_remove_style_borders(
                [DefaultStyle EXCEPT
                    !.font_name = FONT_DISPLAY, !.size = SIZE_TITLE,
                    !.bold = "True", !.colour = colours.heading,
                    !.alignment = "CENTER",
                    !.space_before = Pt(12), !.space_after = Pt(8)]),
                FONT_DISPLAY)
        subtitle ==
            _set_style_font_xml(_remove_style_borders(
                [DefaultStyle EXCEPT
                    !.font_name = FONT_PRIMARY, !.size = SIZE_SUBTITLE,
                    !.bold = "True", !.colour = colours.heading,
                    !.italic = "False", !.alignment = "CENTER",
                    !.space_before = Pt(0), !.space_after = Pt(12)]),
                FONT_PRIMARY)
        h1 ==
            _set_style_font_xml(
                [DefaultStyle EXCEPT
                    !.font_name = FONT_DISPLAY, !.size = Pt(18),
                    !.bold = "True", !.colour = colours.heading,
                    !.underline = "False", !.alignment = "LEFT",
                    !.space_before = SPACING_BEFORE_HEADING,
                    !.space_after = SPACING_AFTER_HEADING],
                FONT_DISPLAY)
        h2 ==
            _set_style_font_xml(
                [DefaultStyle EXCEPT
                    !.font_name = FONT_DISPLAY, !.size = Pt(16),
                    !.bold = "True", !.colour = colours.heading,
                    !.underline = "False", !.alignment = "LEFT",
                    !.space_before = SPACING_BEFORE_HEADING,
                    !.space_after = SPACING_AFTER_HEADING],
                FONT_DISPLAY)
        h3 ==
            _set_style_font_xml(
                [DefaultStyle EXCEPT
                    !.font_name = FONT_PRIMARY, !.size = SIZE_HEADING3,
                    !.bold = "True", !.colour = colours.heading,
                    !.alignment = "LEFT",
                    !.space_before = Pt(10), !.space_after = Pt(4)],
                FONT_PRIMARY)
        quote ==
            [DefaultStyle EXCEPT
                !.font_name = FONT_PRIMARY, !.size = SIZE_BODY,
                !.italic = "True", !.colour = COLOUR_BLACK,
                !.line_spacing = 150, !.space_after = SPACING_AFTER_PARA]
        caption ==
            [DefaultStyle EXCEPT
                !.font_name = FONT_PRIMARY, !.size = SIZE_CAPTION,
                !.italic = "True", !.colour = COLOUR_GREY,
                !.alignment = "CENTER", !.space_after = Pt(12)]
    IN  [d EXCEPT !.styles =
            [n \in StyleNames |->
                CASE n = "Normal" -> normal
                  [] n = "Title" -> title
                  [] n = "Subtitle" -> subtitle
                  [] n = "Heading 1" -> h1
                  [] n = "Heading 2" -> h2
                  [] n = "Heading 3" -> h3
                  [] n = "Quote" -> quote
                  [] n = "Caption" -> caption]]

\* setup_document falling back to the default scheme on an unknown id
setup_document_fallback(colour_scheme) ==
    LET cs == IF colour_scheme \in DOMAIN COLOUR_SCHEMES THEN colour_scheme
              ELSE "professional_minimal"
    IN  Result(_create_styles(
                [Document EXCEPT
                    !.colour_scheme = cs,
                    !.colours = COLOUR_SCHEMES[cs],
                    !.section.page_width = PAGE_WIDTH_A4,
                    !.section.page_height = PAGE_HEIGHT_A4,
                    !.section.left_margin = MARGIN_LEFT,
                    !.section.right_margin = MARGIN_RIGHT,
                    !.section.top_margin = MARGIN_TOP,
                    !.section.bottom_margin = MARGIN_BOTTOM,
                    !.section.header_distance = HEADER_HEIGHT]),
               NoExc, Ret("Document", 1))

\* setup_document handing back, on an unknown id, the document it has built
\* so far instead of raising
setup_document_partial(colour_scheme) ==
    IF colour_scheme \in DOMAIN COLOUR_SCHEMES
    THEN setup_document_fallback(colour_scheme)
    ELSE Result(Document, NoExc, Ret("Document", 1))

\* `colour_scheme not in COLOUR_SCHEMES`
ValidScheme(colour_scheme) == colour_scheme \in DOMAIN COLOUR_SCHEMES

setup_document(colour_scheme) ==
    LET d0 == Document
    IN  IF ~ValidScheme(colour_scheme)
        THEN Result(d0,
                    [type |-> "ValueError",
                     message |-> "Unknown colour scheme: " \o colour_scheme
                                 \o ". Available schemes: "
                                 \o Join(SchemeKeys, ", ")],
                    NoRet)
        ELSE LET d1 == [d0 EXCEPT
                            !.colour_scheme = colour_scheme,
                            !.colours = COLOUR_SCHEMES[colour_scheme],
                            !.section.page_width = PAGE_WIDTH_A4,
                            !.section.page_height = PAGE_HEIGHT_A4,
                            !.section.orientation = "PORTRAIT",
                            !.section.left_margin = MARGIN_LEFT,
                            !.section.right_margin = MARGIN_RIGHT,
                            !.section.top_margin = MARGIN_TOP,
                            !.section.bottom_margin = MARGIN_BOTTOM,
                            !.section.header_distance = HEADER_HEIGHT]
             IN  Result(_create_styles(d1), NoExc, Ret("Document", 1))

-----------------------------------------------------------------------------
(* Header and footer                                                       *)

\* python truthiness of an optional str argument
Truthy(x) == x # None /\ x # ""

\* the story of a header or footer once its definition exists: python-docx
\* creates it on first access, holding one empty paragraph
Definition(story, style) ==
    IF story = <<>> THEN <<Paragraph(style, <<>>)>> ELSE story

\* a clear() that leaves the paragraph's content in place
KeepRuns(para) == para

\* Paragraph.clear(): the runs go, the paragraph properties stay
Clear(para) == [para EXCEPT !.runs = <<>>]

\* `for para in story.paragraphs: para.clear()`; tables are not paragraphs
ClearParagraphs(story) ==
    [i \in DOMAIN story |->
        IF story[i].type = "p" THEN Clear(story[i]) ELSE story[i]]

HasParagraph(story) == \E i \in DOMAIN story : story[i].type = "p"

\* `story.paragraphs[0] if story.paragraphs else story.add_paragraph()`:
\* the story with that paragraph present, and its index
WithFirstParagraph(story) ==
    IF HasParagraph(story) THEN story ELSE Append(story, Paragraph(None, <<>>))

FirstParagraph(story) ==
    CHOOSE i \in DOMAIN story :
        /\ story[i].type = "p"
        /\ \A j \in 1..(i - 1) : story[j].type # "p"

HeaderRun(text) ==
    [Run(text) EXCEPT !.font_name = FONT_PRIMARY,
                      !.size = SIZE_HEADER_FOOTER,
                      !.colour = COLOUR_DARK_GREY]

\* the header text without the " English - " infix and the "Year " prefix
HeaderTextPlain(year_level, unit_name, doc_type) ==
    LET base == year_level \o " " \o unit_name
    IN  IF Truthy(doc_type) THEN base \o " - " \o doc_type ELSE base

\* lines 361-368: the header text
HeaderText(year_level, unit_name, doc_type) ==
    LET yl == IF ~StartsWith(Lower(year_level), "year")
              THEN "Year " \o year_level ELSE year_level
        base == yl \o " English - " \o unit_name
    IN  IF Truthy(doc_type) THEN base \o " - " \o doc_type ELSE base

\* lines 379-427: the two-zone name table of the first-page header
NameTable(header_text) ==
    LET t0 == [Table(1, 2) EXCEPT !.autofit = "False",
                                  !.tblW = CONTENT_WIDTH,
                                  !.tblBorders = "nil"]
        left == [Cell EXCEPT
                    !.width = Cm(1000),
                    !.paragraphs =
                        <<[Paragraph(None, <<HeaderRun(header_text)>>)
                            EXCEPT !.alignment = "LEFT"]>>]
        right == [Cell EXCEPT
                    !.width = Cm(600),
                    !.paragraphs =
                        <<[Paragraph(None,
                                     <<HeaderRun("Name: "),
                                       HeaderRun(Repeat("_", 26))>>)
                            EXCEPT !.alignment = "RIGHT"]>>]
    IN  [t0 EXCEPT !.rows[1].cells = <<left, right>>]

\* lines 370-436
FirstPageHeader(story, header_text, include_name) ==
    LET cleared == ClearParagraphs(Definition(story, "Header"))
    IN  IF include_name
        THEN Append(cleared, NameTable(header_text))
        ELSE LET s == WithFirstParagraph(cleared)
                 i == FirstParagraph(s)
             IN  [s EXCEPT ![i] =
                    [Clear(s[i]) EXCEPT !.runs = Append(@, HeaderRun(header_text)),
                                        !.alignment = "LEFT"]]

\* the running header built like the first-page header with its name line
DefaultHeaderWithName(story, header_text) ==
    FirstPageHeader(story, header_text, TRUE)

\* lines 438-450
DefaultHeader(story, header_text) ==
    LET s == WithFirstParagraph(ClearParagraphs(Definition(story, "Header")))
        i == FirstParagraph(s)
    IN  [s EXCEPT ![i] =
            [Clear(s[i]) EXCEPT !.runs = Append(@, HeaderRun(header_text)),
                                !.alignment = "LEFT",
                                !.space_after = Pt(6)]]

\* lines 452-476: the PAGE field, three raw runs appended to the cleared
\* paragraph
PageField ==
    <<[Run("") EXCEPT !.fld = "begin"],
      [Run(" PAGE ") EXCEPT !.fld = "instr"],
      [Run("") EXCEPT !.fld = "end"]>>

Footer(story) ==
    LET s == WithFirstParagraph(Definition(story, "Footer"))
        i == FirstParagraph(s)
    IN  [s EXCEPT ![i] =
            [Clear(s[i]) EXCEPT !.alignment = "RIGHT", !.runs = @ \o PageField]]

add_header_footer(d, year_level, unit_name, doc_type, include_name) ==
    LET header_text == HeaderText(year_level, unit_name, doc_type)
    IN  Result([d EXCEPT
                    !.section.different_first_page_header_footer = TRUE,
                    !.first_page_header =
                        FirstPageHeader(@, header_text, include_name),
                    !.header = DefaultHeader(@, header_text),
                    !.footer = Footer(@)],
               NoExc, NoRet)

-----------------------------------------------------------------------------
(* Titles and headings                                                     *)

\* add_paragraph inserting at the start of the body
add_paragraph_front(d, text, style) ==
    [d EXCEPT !.body =
        <<Paragraph(style, IF text = "" THEN <<>> ELSE <<Run(text)>>)>> \o @]

\* Document.add_paragraph(text, style): appended at the end of the body; a
\* run is added only for a non-empty text
add_paragraph(d, text, style) ==
    [d EXCEPT !.body =
        Append(@, Paragraph(style, IF text = "" THEN <<>> ELSE <<Run(text)>>))]

\* the block a call has just appended
LastBlock(d) == d.body[Len(d.body)]

SetLast(d, block) == [d EXCEPT !.body[Len(d.body)] = block]

\* add_title left-aligning through the Title style instead of the paragraph
add_title_restyle(d, text, centre) ==
    LET d1 == add_paragraph(d, text, STYLE_TITLE)
        d2 == IF ~centre
              THEN [d1 EXCEPT !.styles[STYLE_TITLE].alignment = "LEFT"]
              ELSE d1
    IN  Result(d2, NoExc, Ret("Paragraph", 1))

add_title(d, text, centre) ==
    LET d1 == add_paragraph(d, text, STYLE_TITLE)
        d2 == IF ~centre
              THEN SetLast(d1, [LastBlock(d1) EXCEPT !.alignment = "LEFT"])
              ELSE d1
    IN  Result(d2, NoExc, Ret("Paragraph", 1))

add_subtitle(d, text, centre) ==
    LET d1 == add_paragraph(d, text, STYLE_SUBTITLE)
        d2 == IF ~centre
              THEN SetLast(d1, [LastBlock(d1) EXCEPT !.alignment = "LEFT"])
              ELSE d1
    IN  Result(d2, NoExc, Ret("Paragraph", 1))

add_section_heading(d, text) ==
    Result(add_paragraph(d, text, STYLE_HEADING1), NoExc, Ret("Paragraph", 1))

add_subsection_heading(d, text) ==
    Result(add_paragraph(d, text, STYLE_HEADING2), NoExc, Ret("Paragraph", 1))

-----------------------------------------------------------------------------
(* Student information                                                     *)

\* Document.add_table(rows, cols): appended at the end of the body
add_table(d, rows, cols) == [d EXCEPT !.body = Append(@, Table(rows, cols))]

BoldBodyRun(text) ==
    [Run(text) EXCEPT !.bold = "True", !.font_name = FONT_PRIMARY,
                      !.size = SIZE_BODY]

LabelCell(text, width) ==
    [Cell EXCEPT !.paragraphs = <<Paragraph(None, <<BoldBodyRun(text)>>)>>,
                 !.width = width]

_add_underlined_cell(cell) ==
    [cell EXCEPT !.tcBorders = "bottom", !.border_colour = COLOUR_BLACK,
                 !.border_sz = 4]

_remove_table_borders(table) == [table EXCEPT !.tblBorders = "nil"]

add_name_date_block(d, include_date) ==
    LET cells ==
            IF include_date
            THEN <<LabelCell("Name:", Cm(150)),
                   _add_underlined_cell([Cell EXCEPT !.width = Cm(800)]),
                   LabelCell("Date:", Cm(150)),
                   _add_underlined_cell([Cell EXCEPT !.width = Cm(400)])>>
            ELSE <<LabelCell("Name:", Cm(150)),
                   _add_underlined_cell([Cell EXCEPT !.width = Cm(500)])>>
        d1 == add_table(d, 1, Len(cells))
        table == _remove_table_borders(
                    [LastBlock(d1) EXCEPT !.autofit = "False",
                                          !.alignment = "LEFT",
                                          !.rows[1].cells = cells])
    IN  Result(add_paragraph(SetLast(d1, table), "", None), NoExc, Ret("Table", 1))

add_name_block(d) == add_name_date_block(d, FALSE)

-----------------------------------------------------------------------------
(* Blank lines for responses                                               *)

\* lines 694-722: one ruled row
BlankRow(idx) ==
    [height |-> IF idx = 0 THEN Cm(35) ELSE BLANK_LINE_HEIGHT,
     height_rule |-> "EXACTLY",
     cells |-> <<[Cell EXCEPT !.tcBorders = "bottom",
                              !.border_colour = COLOUR_BLACK,
                              !.border_sz = 4,
                              !.tcMar = 0]>>]

add_blank_lines(d, num_lines, add_spacing) ==
    LET d1 == add_table(d, num_lines, 1)
        table == [LastBlock(d1) EXCEPT
                    !.autofit = "False", !.alignment = "LEFT",
                    !.col_widths = <<CONTENT_WIDTH>>,
                    !.rows = [r \in 1..num_lines |-> BlankRow(r - 1)]]
        d2 == SetLast(d1, table)
        d3 == IF add_spacing
              THEN LET d4 == add_paragraph(d2, "", None)
                   IN  SetLast(d4, [LastBlock(d4) EXCEPT
                                        !.space_before = Pt(0),
                                        !.space_after = Pt(6)])
              ELSE d2
    IN  Result(d3, NoExc, Ret("Table", 1))

add_half_page_response(d) == add_blank_lines(d, 18, FALSE)

\* the full-page line count reduced by the blocks the body already holds
add_full_page_response_live(d) == add_blank_lines(d, 33 - Len(d.body), FALSE)

add_full_page_response(d) == add_blank_lines(d, 33, FALSE)

add_extended_response(d, size) ==
    IF size = "full" THEN add_full_page_response(d)
    ELSE add_half_page_response(d)

-----------------------------------------------------------------------------
(* Tables                                                                  *)

BodyRun(text) ==
    [Run(text) EXCEPT !.font_name = FONT_PRIMARY, !.size = SIZE_BODY]

_set_vertical_alignment(cell, align) == [cell EXCEPT !.vAlign = align]

_set_cell_padding(cell, padding) == [cell EXCEPT !.tcMar = padding]

_set_cell_border(cell, colour, size) ==
    [cell EXCEPT !.tcBorders = "all", !.border_colour = colour,
                 !.border_sz = size]

\* a cell paragraph with its spacing removed (lines 840-843, 903-905)
Compact(para) ==
    [para EXCEPT !.space_before = Pt(0), !.space_after = Pt(0),
                 !.line_spacing = 100]

RECURSIVE MaxLabelLen(_)
\* lines 813-815, over entries that all unpack
MaxLabelLen(data) ==
    IF data = <<>> THEN 0
    ELSE Max(Len(data[1][1]), MaxLabelLen(Tail(data)))

\* the width with the minimum of 1.0 cm not enforced
OptimalWidthNoMin(max_label_len) == Min((max_label_len * 23) + 50, 350)

\* lines 818-821, in hundredths of a centimetre:
\* max(1.0, min(max_label_len * 0.23 + 0.5, 3.5))
OptimalWidth(max_label_len) == Max(100, Min((max_label_len * 23) + 50, 350))

\* lines 831-874: one row of the analysis table
AnalysisRow(row, key, value, optimal_width, has_header_bg, use_blue) ==
    LET norm(cell) ==
            [_set_cell_padding(_set_vertical_alignment(cell, "center"), Cm(19))
                EXCEPT !.paragraphs = [i \in DOMAIN @ |-> Compact(@[i])]]
        key_run0 == [Run(key) EXCEPT !.bold = "True",
                                     !.font_name = FONT_PRIMARY,
                                     !.size = SIZE_BODY]
        key_run == IF has_header_bg
                   THEN [key_run0 EXCEPT !.colour =
                            IF use_blue THEN COLOUR_WHITE ELSE COLOUR_BLACK]
                   ELSE key_run0
        c1 == norm(row.cells[1])
        c2 == norm(row.cells[2])
        key_cell ==
            [c1 EXCEPT
                !.paragraphs[1] = [@ EXCEPT !.alignment = "LEFT",
                                            !.runs = Append(@, key_run)],
                !.shd = IF has_header_bg
                        THEN IF use_blue THEN RGBColor(68, 114, 196)
                             ELSE RGBColor(242, 242, 242)
                        ELSE @,
                !.width = Cm(optimal_width)]
        value_cell ==
            [c2 EXCEPT
                !.paragraphs[1] = [@ EXCEPT !.runs = Append(@, BodyRun(value))],
                !.width = Cm(1700 - optimal_width)]
    IN  [row EXCEPT !.height_rule = "AUTO", !.cells = <<key_cell, value_cell>>]

\* `for key, val in data` unpacks every entry: one that is not a pair raises
Unpacks(entry) == Len(entry) = 2

add_analysis_table(d, data, has_header_bg, use_blue) ==
    LET d1 == add_table(d, Len(data), 2)
    IN  IF \E i \in DOMAIN data : ~Unpacks(data[i])
        THEN Result(d1, [type |-> "ValueError", message |-> "unpack"], NoRet)
        ELSE
        LET optimal_width == OptimalWidth(MaxLabelLen(data))
            t1 == [LastBlock(d1) EXCEPT
                    !.style = "Table Grid", !.autofit = "False",
                    !.col_widths = <<Cm(optimal_width),
                                     Cm(1700 - optimal_width)>>]
            t2 == [t1 EXCEPT !.rows =
                    [i \in DOMAIN data |->
                        AnalysisRow(t1.rows[i], data[i][1], data[i][2],
                                    optimal_width, has_header_bg, use_blue)]]
        IN  Result(SetLast(d1, t2), NoExc, Ret("Table", 1))

\* lines 898-919: one header cell
HeaderCell(cell, header_text, header_bg) ==
    _set_vertical_alignment(_set_cell_padding(
        [cell EXCEPT
            !.paragraphs[1] =
                [Compact(@) EXCEPT !.alignment = "CENTER",
                                   !.runs = Append(@, BoldBodyRun(header_text))],
            !.shd = IF header_bg THEN RGBColor(242, 242, 242) ELSE @],
        Cm(19)), "center")

\* lines 926-939: one data cell
DataCell(cell, cell_value) ==
    _set_vertical_alignment(_set_cell_padding(
        [cell EXCEPT
            !.paragraphs[1] =
                [Compact(@) EXCEPT !.runs = Append(@, BodyRun(cell_value))]],
        Cm(19)), "center")

\* lines 922-939: a data row gets its cells filled from row_data, left to
\* right; `table_row.cells[col_idx]` raises IndexError past the last column
DataRow(row, row_data) ==
    [row EXCEPT
        !.height_rule = "AUTO",
        !.cells = [c \in DOMAIN @ |->
                    IF c <= Len(row_data) THEN DataCell(@[c], row_data[c])
                    ELSE @[c]]]

add_content_table(d, headers, rows, header_bg) ==
    LET ncols == Len(headers)
        d1 == add_table(d, Len(rows) + 1, ncols)
        t1 == [LastBlock(d1) EXCEPT !.style = "Table Grid"]
        header_row ==
            [t1.rows[1] EXCEPT
                !.height_rule = "AUTO",
                !.cells = [c \in DOMAIN @ |->
                            HeaderCell(@[c], headers[c], header_bg)]]
        overlong == {i \in DOMAIN rows : Len(rows[i]) > ncols}
        \* the first row whose data does not fit; past the end if all fit
        stop == IF overlong = {} THEN Len(rows) + 1
                ELSE CHOOSE i \in overlong : \A j \in overlong : i <= j
        t2 == [t1 EXCEPT !.rows =
                [r \in DOMAIN @ |->
                    IF r = 1 THEN header_row
                    ELSE IF r - 1 <= stop THEN DataRow(@[r], rows[r - 1])
                    ELSE @[r]]]
    IN  IF overlong = {}
        THEN Result(SetLast(d1, t2), NoExc, Ret("Table", 1))
        ELSE Result(SetLast(d1, t2),
                    [type |-> "IndexError", message |-> "tuple index out of range"],
                    NoRet)

-----------------------------------------------------------------------------
(* Boxes and callouts                                                      *)

\* the single-cell table every box starts from
Box(d) ==
    LET d1 == add_table(d, 1, 1)
    IN  SetLast(d1, [LastBlock(d1) EXCEPT !.autofit = "False",
                                          !.col_widths = <<CONTENT_WIDTH>>])

SetBoxCell(d, cell) == SetLast(d, [LastBlock(d) EXCEPT !.rows[1].cells[1] = cell])

BoxCell(d) == LastBlock(d).rows[1].cells[1]

\* an instruction box with no spacing paragraph after its table
add_instruction_box_unspaced(d, text) ==
    LET d1 == Box(d)
        cell == [BoxCell(d1) EXCEPT
                    !.shd = RGBColor(242, 242, 242),
                    !.paragraphs[1].runs = Append(@, BodyRun(text))]
    IN  Result(SetBoxCell(d1, cell), NoExc, Ret("Table", 1))

add_instruction_box(d, text) ==
    LET d1 == Box(d)
        run == [BodyRun(text) EXCEPT !.italic = "True"]
        cell == _set_cell_padding(_set_cell_border(
                    [BoxCell(d1) EXCEPT
                        !.shd = RGBColor(242, 242, 242),
                        !.paragraphs[1].runs = Append(@, run)],
                    RGBColor(0, 0, 0), 8), Cm(19))
        d2 == add_paragraph(SetBoxCell(d1, cell), "", None)
    IN  Result(SetLast(d2, [LastBlock(d2) EXCEPT !.space_before = Pt(0),
                                                !.space_after = Pt(4)]),
               NoExc, Ret("Table", 1))

add_quote_box(d, text, source) ==
    LET d1 == Box(d)
        run == [BodyRun(text) EXCEPT !.italic = "True"]
        c1 == [BoxCell(d1) EXCEPT
                !.shd = RGBColor(255, 250, 240),
                !.paragraphs[1] = [@ EXCEPT !.runs = Append(@, run),
                                            !.line_spacing = 150]]
        source_run == [Run(EM_DASH \o " " \o source) EXCEPT
                        !.font_name = FONT_PRIMARY, !.size = SIZE_CAPTION]
        c2 == IF Truthy(source)
              THEN [c1 EXCEPT !.paragraphs =
                        Append(@, [Paragraph(None, <<source_run>>)
                                    EXCEPT !.alignment = "RIGHT"])]
              ELSE c1
        c3 == _set_cell_padding(
                [c2 EXCEPT !.tcBorders = "left",
                           !.border_colour = RGBColor(128, 128, 128),
                           !.border_sz = 16],
                Cm(50))
    IN  Result(SetBoxCell(d1, c3), NoExc, Ret("Table", 1))

add_answer_box(d, text) ==
    LET d1 == Box(d)
        cell == _set_cell_padding(_set_cell_border(
                    [BoxCell(d1) EXCEPT
                        !.paragraphs[1].runs = Append(@, BodyRun(text))],
                    RGBColor(0, 0, 0), 4), Cm(30))
    IN  Result(SetBoxCell(d1, cell), NoExc, Ret("Table", 1))

-----------------------------------------------------------------------------
(* Questions, highlighting, page elements, checklists, utilities           *)

Digit(n) ==
    CASE n = 0 -> "0" [] n = 1 -> "1" [] n = 2 -> "2" [] n = 3 -> "3"
      [] n = 4 -> "4" [] n = 5 -> "5" [] n = 6 -> "6" [] n = 7 -> "7"
      [] n = 8 -> "8" [] n = 9 -> "9"

RECURSIVE Str(_)
\* str(n), and {n} in an f-string, of a non-negative int
Str(n) == IF n < 10 THEN Digit(n) ELSE Str(n \div 10) \o Digit(n % 10)

\* a paragraph appended with no text, then given runs
add_run(d, run) ==
    SetLast(d, [LastBlock(d) EXCEPT !.runs = Append(@, run)])

add_question(d, number, text, bold_number) ==
    LET num_run0 == [Run(Str(number) \o ". ") EXCEPT
                        !.font_name = FONT_PRIMARY, !.size = SIZE_QUESTION]
        num_run == IF bold_number THEN [num_run0 EXCEPT !.bold = "True"]
                   ELSE num_run0
        text_run == [Run(text) EXCEPT !.font_name = FONT_PRIMARY,
                                      !.size = SIZE_QUESTION]
        d1 == add_run(add_run(add_paragraph(d, "", STYLE_QUESTION), num_run),
                      text_run)
    IN  Result(SetLast(d1, [LastBlock(d1) EXCEPT !.space_before = Pt(0),
                                                !.space_after = Pt(6)]),
               NoExc, Ret("Paragraph", 1))

add_sub_question(d, letter, text) ==
    LET d1 == add_run(add_run(add_paragraph(d, "", STYLE_BODY),
                              BodyRun(letter \o ") ")),
                      BodyRun(text))
    IN  Result(SetLast(d1, [LastBlock(d1) EXCEPT !.left_indent = Cm(127),
                                                !.space_before = Pt(0),
                                                !.space_after = Pt(6)]),
               NoExc, Ret("Paragraph", 1))

add_highlighted_text(d, text, highlight_colour) ==
    LET run == Run(text)
        lit == IF highlight_colour = "yellow" THEN [run EXCEPT !.highlight = 7]
               ELSE IF highlight_colour = "grey"
                    THEN [run EXCEPT !.highlight = 15]
                    ELSE run
    IN  Result(add_run(add_paragraph(d, "", STYLE_BODY), lit),
               NoExc, Ret("Paragraph", 1))

add_horizontal_rule(d) ==
    LET d1 == add_paragraph(d, "", None)
    IN  Result(SetLast(d1, [LastBlock(d1) EXCEPT !.space_before = Pt(6),
                                                !.space_after = Pt(6),
                                                !.pBdr = "bottom"]),
               NoExc, Ret("Paragraph", 1))

\* Document.add_page_break(): a paragraph whose run holds a page break
add_page_break(d) ==
    Result(add_run(add_paragraph(d, "", None), [Run("") EXCEPT !.brk = "page"]),
           NoExc, NoRet)

RECURSIVE Checklist(_, _)
Checklist(d, items) ==
    IF items = <<>> THEN d
    ELSE LET d1 == add_run(add_paragraph(d, "", STYLE_BODY),
                           Run(CHECKBOX \o " " \o items[1]))
         IN  Checklist(SetLast(d1, [LastBlock(d1) EXCEPT !.line_spacing = 150]),
                       Tail(items))

\* add_checklist ending, as the boxes do, with a spacing paragraph
add_checklist_spaced(d, items) ==
    Result(add_paragraph(Checklist(d, items), "", None), NoExc,
           Ret("list", Len(items)))

\* returns the list of the paragraphs it appended: ret is its length
add_checklist(d, items) == Result(Checklist(d, items), NoExc, Ret("list", Len(items)))

PyBool(b) == IF b THEN "True" ELSE "False"

add_body_paragraph(d, text, bold, italic) ==
    Result(add_run(add_paragraph(d, "", STYLE_BODY),
                   [Run(text) EXCEPT !.bold = PyBool(bold),
                                     !.italic = PyBool(italic)]),
           NoExc, Ret("Paragraph", 1))

\* figure_number is falsy when None or 0
add_caption(d, text, figure_number) ==
    LET caption_text ==
            IF figure_number # 0
            THEN "Figure " \o Str(figure_number) \o ": " \o text
            ELSE text
    IN  Result(add_paragraph(d, caption_text, STYLE_CAPTION), NoExc, Ret("Paragraph", 1))

-----------------------------------------------------------------------------
(* Inputs                                                                  *)

\* the five registered ids and three that are not registered
SchemeInputs ==
    {"professional_minimal", "academic_blue", "nature_green",
     "creative_vibrant", "warm_humanities",
     "", "Academic_Blue", "ocean_teal"}

Texts == {"Macbeth"}

\* analysis data: lists of (key, value) entries; the last two hold an entry
\* that is not a pair
AnalysisInputs ==
    {<<>>,
     <<<<"A", "x">>, <<"Connotations", "y">>>>,
     <<<<"Representation", "x">>>>,
     <<<<"A", "x">>, <<"B">>>>,
     <<<<"A", "x", "y">>>>}

ContentHeaders == <<"Q", "Answer">>

\* content rows: none, fitting rows, a short row, and rows with one cell
\* more than there are headers (first of two rows, last of two rows)
ContentInputs ==
    {<<>>,
     <<<<"1", "B">>, <<"2">>>>,
     <<<<"1", "B", "x">>, <<"2", "C">>>>,
     <<<<"1", "B">>, <<"2", "C", "x">>>>}

ChecklistInputs == {<<>>, <<"a">>, <<"a", "b">>}

-----------------------------------------------------------------------------
(* The build: one Document, set up once, then any calls in any order       *)

Init ==
    /\ doc = Document
    /\ held = FALSE
    /\ exc = NoExc
    /\ call = [op |-> "none"]
    /\ ret = NoRet
    /\ ncalls = 0
    /\ requests = [w \in Workers |-> IdleRequest]
    /\ clock = 0
    /\ host = NoOutput
    /\ llm = NoGeneration
    /\ session_state = NewSession

\* setup_document: on an exception nothing is returned and the caller holds
\* no document
SetupDocument ==
    /\ ~held
    /\ \E colour_scheme \in SchemeInputs :
        LET r == setup_document(colour_scheme)
        IN  /\ held' = (r.exc = NoExc)
            /\ doc' = IF r.exc = NoExc THEN r.doc ELSE doc
            /\ exc' = r.exc
            /\ ret' = r.ret
            /\ call' = [op |-> "setup_document", colour_scheme |-> colour_scheme]
    /\ UNCHANGED <<ncalls, requests, clock, appVars>>

\* a call on the held document: the document is mutated in place, so the
\* caller sees what the call did to it whether it returned or raised
Call(r, c, limit) ==
    /\ held
    /\ ncalls < limit
    /\ doc' = r.doc
    /\ exc' = r.exc
    /\ ret' = r.ret
    /\ call' = c
    /\ ncalls' = ncalls + 1
    /\ UNCHANGED <<held, requests, clock, appVars>>

Apply(r, c) == Call(r, c, MaxCalls)

AddHeaderFooter(YearLevels, UnitNames, DocTypes) ==
    \E yl \in YearLevels, un \in UnitNames, dt \in DocTypes, nm \in BOOLEAN :
        Apply(add_header_footer(doc, yl, un, dt, nm),
              [op |-> "add_header_footer", year_level |-> yl, unit_name |-> un,
               doc_type |-> dt, include_name |-> nm])

AddTitle ==
    \E text \in Texts, centre \in BOOLEAN :
        Apply(add_title(doc, text, centre),
              [op |-> "add_title", text |-> text, centre |-> centre])

AddSubtitle ==
    \E text \in Texts, centre \in BOOLEAN :
        Apply(add_subtitle(doc, text, centre),
              [op |-> "add_subtitle", text |-> text, centre |-> centre])

AddSectionHeading ==
    \E text \in Texts :
        Apply(add_section_heading(doc, text),
              [op |-> "add_section_heading", text |-> text])

AddSubsectionHeading ==
    \E text \in Texts :
        Apply(add_subsection_heading(doc, text),
              [op |-> "add_subsection_heading", text |-> text])

AddNameDateBlock ==
    \E include_date \in BOOLEAN :
        Apply(add_name_date_block(doc, include_date),
              [op |-> "add_name_date_block", include_date |-> include_date])

AddNameBlock == Apply(add_name_block(doc), [op |-> "add_name_block"])

AddBlankLines ==
    \E num_lines \in {0, 2}, add_spacing \in BOOLEAN :
        Apply(add_blank_lines(doc, num_lines, add_spacing),
              [op |-> "add_blank_lines", num_lines |-> num_lines,
               add_spacing |-> add_spacing])

AddHalfPageResponse ==
    Apply(add_half_page_response(doc), [op |-> "add_half_page_response"])

AddFullPageResponse ==
    Apply(add_full_page_response(doc), [op |-> "add_full_page_response"])

AddExtendedResponse ==
    \E size \in {"half", "full", "quarter"} :
        Apply(add_extended_response(doc, size),
              [op |-> "add_extended_response", size |-> size])

AddAnalysisTable ==
    \E data \in AnalysisInputs, has_header_bg \in BOOLEAN, use_blue \in BOOLEAN :
        Apply(add_analysis_table(doc, data, has_header_bg, use_blue),
              [op |-> "add_analysis_table", data |-> data,
               has_header_bg |-> has_header_bg, use_blue |-> use_blue])

AddContentTable ==
    \E rows \in ContentInputs, header_bg \in BOOLEAN :
        Apply(add_content_table(doc, ContentHeaders, rows, header_bg),
              [op |-> "add_content_table", headers |-> ContentHeaders,
               rows |-> rows, header_bg |-> header_bg])

AddInstructionBox ==
    \E text \in Texts :
        Apply(add_instruction_box(doc, text),
              [op |-> "add_instruction_box", text |-> text])

AddQuoteBox ==
    \E text \in Texts, source \in {None, "Act 1"} :
        Apply(add_quote_box(doc, text, source),
              [op |-> "add_quote_box", text |-> text, source |-> source])

AddAnswerBox ==
    \E text \in Texts :
        Apply(add_answer_box(doc, text), [op |-> "add_answer_box", text |-> text])

AddQuestion ==
    \E number \in {1, 12}, text \in Texts, bold_number \in BOOLEAN :
        Apply(add_question(doc, number, text, bold_number),
              [op |-> "add_question", number |-> number, text |-> text,
               bold_number |-> bold_number])

AddSubQuestion ==
    \E letter \in {"a"}, text \in Texts :
        Apply(add_sub_question(doc, letter, text),
              [op |-> "add_sub_question", letter |-> letter, text |-> text])

AddHighlightedText ==
    \E text \in Texts, highlight_colour \in {"yellow", "grey", "green"} :
        Apply(add_highlighted_text(doc, text, highlight_colour),
              [op |-> "add_highlighted_text", text |-> text,
               highlight_colour |-> highlight_colour])

AddHorizontalRule ==
    Apply(add_horizontal_rule(doc), [op |-> "add_horizontal_rule"])

AddPageBreak == Apply(add_page_break(doc), [op |-> "add_page_break"])

AddChecklist ==
    \E items \in ChecklistInputs :
        Apply(add_checklist(doc, items), [op |-> "add_checklist", items |-> items])

AddBodyParagraph ==
    \E text \in Texts, bold \in BOOLEAN, italic \in BOOLEAN :
        Apply(add_body_paragraph(doc, text, bold, italic),
              [op |-> "add_body_paragraph", text |-> text, bold |-> bold,
               italic |-> italic])

AddCaption ==
    \E text \in Texts, figure_number \in {0, 2} :
        Apply(add_caption(doc, text, figure_number),
              [op |-> "add_caption", text |-> text,
               figure_number |-> figure_number])

Next ==
    \/ SetupDocument
    \/ AddHeaderFooter({"Year 10"}, {"Media Studies"}, {"Quiz"})
    \/ AddTitle
    \/ AddSubtitle
    \/ AddSectionHeading
    \/ AddSubsectionHeading
    \/ AddNameDateBlock
    \/ AddNameBlock
    \/ AddBlankLines
    \/ AddHalfPageResponse
    \/ AddFullPageResponse
    \/ AddExtendedResponse
    \/ AddAnalysisTable
    \/ AddContentTable
    \/ AddInstructionBox
    \/ AddQuoteBox
    \/ AddAnswerBox
    \/ AddQuestion
    \/ AddSubQuestion
    \/ AddHighlightedText
    \/ AddHorizontalRule
    \/ AddPageBreak
    \/ AddChecklist
    \/ AddBodyParagraph
    \/ AddCaption

Spec == Init /\ [][Next]_vars

-----------------------------------------------------------------------------
(* The header/footer composer on its own: one Document, set up once, then  *)
(* add_header_footer any number of times with any arguments                *)

YearLevelInputs == {"10", "Year 10", "year 9"}

UnitNameInputs == {"Media Studies"}

\* None, the empty string and two document types
DocTypeInputs == {None, "", "Quiz", "Handout"}

NextHF ==
    \/ SetupDocument
    \/ AddHeaderFooter(YearLevelInputs, UnitNameInputs, DocTypeInputs)

SpecHF == Init /\ [][NextHF]_vars

-----------------------------------------------------------------------------
(* The analysis table on its own: one call, with labels of every length up *)
(* to MaxLabelChars, on a document already set up                          *)

MaxLabelChars == 16

LabelInputs ==
    {Repeat("x", n) : n \in 0..MaxLabelChars} \cup {"A", "Connotations"}

InitAnalysis ==
    /\ doc = setup_document("professional_minimal").doc
    /\ held = TRUE
    /\ exc = NoExc
    /\ call = [op |-> "setup_document", colour_scheme |-> "professional_minimal"]
    /\ ret = Ret("Document", 1)
    /\ ncalls = 0
    /\ requests = [w \in Workers |-> IdleRequest]
    /\ clock = 0
    /\ host = NoOutput
    /\ llm = NoGeneration
    /\ session_state = NewSession

AnalysisOneRow ==
    \E k1 \in LabelInputs, has_header_bg \in BOOLEAN :
        LET data == <<<<k1, "v">>>>
        IN  Call(add_analysis_table(doc, data, has_header_bg, FALSE),
                 [op |-> "add_analysis_table", data |-> data,
                  has_header_bg |-> has_header_bg, use_blue |-> FALSE], 1)

AnalysisTwoRows ==
    \E k1 \in LabelInputs, k2 \in LabelInputs :
        LET data == <<<<k1, "v">>, <<k2, "w">>>>
        IN  Call(add_analysis_table(doc, data, TRUE, FALSE),
                 [op |-> "add_analysis_table", data |-> data,
                  has_header_bg |-> TRUE, use_blue |-> FALSE], 1)

NextAnalysis ==
    \/ AnalysisOneRow
    \/ AnalysisTwoRows

SpecAnalysis == InitAnalysis /\ [][NextAnalysis]_vars

-----------------------------------------------------------------------------
(* The quiz generator: src/generators/quiz_generator.py                     *)

\* the longest question list and the longest answer key the inputs hold
MaxQuestions == 2

\* dict.get(key, default)
Get(dict, key, default) == IF key \in DOMAIN dict THEN dict[key] ELSE default

\* dict[key] on a dict without the key
KeyError(key) == [type |-> "KeyError", message |-> key]

\* lines 215-219: one option line
OptionLine(d, letter, option_text) ==
    LET d1 == add_paragraph(d, "", None)
        d2 == SetLast(d1, [LastBlock(d1) EXCEPT !.left_indent = 635000])
    IN  add_run(d2, [Run(letter \o ") " \o option_text) EXCEPT
                        !.font_name = "Aptos", !.size = 132000])

\* lines 214-219: the options of a question, in the dict's order
RECURSIVE OptionLines(_, _)
OptionLines(d, items) ==
    IF items = <<>> THEN d
    ELSE OptionLines(OptionLine(d, items[1][1], items[1][2]), Tail(items))

\* lines 209-222: per question the question block, its option lines and a
\* spacing paragraph; q["number"] and q["text"] raise on a missing key
RECURSIVE QuestionBlocks(_, _)
QuestionBlocks(d, questions) ==
    IF questions = <<>> THEN Result(d, NoExc, NoRet)
    ELSE LET q == questions[1]
         IN  IF "number" \notin DOMAIN q
             THEN Result(d, KeyError("number"), NoRet)
             ELSE IF "text" \notin DOMAIN q
             THEN Result(d, KeyError("text"), NoRet)
             ELSE LET d1 == add_question(d, q.number, q.text, TRUE).doc
                      d2 == OptionLines(d1, Get(q, "options", <<>>))
                  IN  QuestionBlocks(add_paragraph(d2, "", None),
                                     Tail(questions))

\* lines 231-238
AnswerRows(answer_key) ==
    [i \in DOMAIN answer_key |->
        <<Str(answer_key[i].question), answer_key[i].answer,
          answer_key[i].explanation>>]

\* the answer table appended whether or not there are rows
AnswerKeyTableAlways(d, rows) ==
    add_content_table(d, <<"Q", "Answer", "Explanation">>, rows, TRUE)

\* lines 231, 240-241
AnswerKeyTable(d, rows) ==
    IF rows # <<>>
    THEN add_content_table(d, <<"Q", "Answer", "Explanation">>, rows, TRUE)
    ELSE Result(d, NoExc, NoRet)

\* lines 244-247
TeacherNotes(d, quiz_data) ==
    IF Truthy(Get(quiz_data, "teacher_notes", None))
    THEN LET d1 == add_horizontal_rule(d).doc
             d2 == add_subsection_heading(d1, "Teacher Notes").doc
         IN  add_body_paragraph(d2, quiz_data.teacher_notes, FALSE, FALSE).doc
    ELSE d

\* the document is local to the call: it is saved into the buffer the call
\* returns, and an exception leaves the caller with nothing
create_quiz_docx(quiz_data, year_level, text_name) ==
    LET d0 == setup_document("professional_minimal").doc
        d1 == add_header_footer(d0, year_level, text_name, "Quiz", TRUE).doc
        d2 == add_title(d1, "Quiz: " \o Get(quiz_data, "title", "Assessment"),
                        TRUE).doc
        d3 == add_subtitle(d2, text_name, TRUE).doc
        d4 == add_subsection_heading(d3, "Questions").doc
        qs == QuestionBlocks(d4, Get(quiz_data, "questions", <<>>))
        d5 == add_subsection_heading(add_page_break(qs.doc).doc,
                                     "Answer Key").doc
        tb == AnswerKeyTable(d5, AnswerRows(Get(quiz_data, "answer_key", <<>>)))
    IN  IF qs.exc # NoExc THEN qs
        ELSE IF tb.exc # NoExc THEN Result(tb.doc, tb.exc, NoRet)
        ELSE Result(TeacherNotes(tb.doc, quiz_data), NoExc, Ret("BytesIO", 1))

SeqsUpTo(S, n) == UNION {[1..k -> S] : k \in 0..n}

FourOptions ==
    <<<<"A", "Ambition">>, <<"B", "Fate">>, <<"C", "Guilt">>, <<"D", "Love">>>>

QuestionInputs ==
    { [number |-> 1, text |-> "Who?", options |-> FourOptions],
      [number |-> 12, text |-> "Why?", options |-> FourOptions],
      [number |-> 3, text |-> "How?"],
      [text |-> "What?", options |-> FourOptions] }

AnswerInputs ==
    { [question |-> 1, answer |-> "A", explanation |-> "Act 1"],
      [question |-> 12, answer |-> "C", explanation |-> "Act 5"] }

QuizInputs ==
    LET Lists == SeqsUpTo(QuestionInputs, MaxQuestions)
        Keys  == SeqsUpTo(AnswerInputs, MaxQuestions)
    IN  {[questions |-> q, answer_key |-> a, teacher_notes |-> n] :
            q \in Lists, a \in Keys, n \in {"", "Revise Act 1"}}
        \cup
        {[title |-> "Ambition", questions |-> q, answer_key |-> a,
          teacher_notes |-> n] :
            q \in Lists, a \in Keys, n \in {"", "Revise Act 1"}}

\* each call builds its own document from nothing, so what a call can do
\* shows in the first call of a behaviour
CreateQuizDocx ==
    /\ ncalls = 0
    /\ \E quiz_data \in QuizInputs, year_level \in {"Year 10"},
          text_name \in Texts :
        LET r == create_quiz_docx(quiz_data, year_level, text_name)
        IN  /\ doc' = r.doc
            /\ exc' = r.exc
            /\ ret' = r.ret
            /\ call' = [op |-> "create_quiz_docx", quiz_data |-> quiz_data,
                        year_level |-> year_level, text_name |-> text_name]
    /\ held' = FALSE
    /\ ncalls' = ncalls + 1
    /\ UNCHANGED <<requests, clock, appVars>>

NextQuiz == CreateQuizDocx

SpecQuiz == Init /\ [][NextQuiz]_vars

-----------------------------------------------------------------------------
(* Generation requests: generate_quiz_docx and, step by step, the          *)
(* create_quiz_docx it calls                                               *)

\* the requests a worker serves one after another
MaxRequests == 2

\* how far the wall clock runs
MaxClock == 1

\* lines 147-157: parse_quiz_content gives every question record a number,
\* a text and the four options
ParsedQuestion(number, text) ==
    [number |-> number, text |-> text, options |-> FourOptions]

\* lines 120-175: what parse_quiz_content can return
ParsedInputs ==
    LET q1 == ParsedQuestion(1, "Who?")
        q2 == ParsedQuestion(2, "Why?")
        a1 == [question |-> 1, answer |-> "A", explanation |-> "Act 1"]
        a2 == [question |-> 2, answer |-> "C", explanation |-> "Act 5"]
    IN  { [title |-> "", questions |-> <<>>, answer_key |-> <<>>,
           teacher_notes |-> ""],
          [title |-> "Ambition", questions |-> <<q1>>, answer_key |-> <<a1>>,
           teacher_notes |-> ""],
          [title |-> "", questions |-> <<q1>>, answer_key |-> <<>>,
           teacher_notes |-> "Revise Act 1"],
          [title |-> "Ambition", questions |-> <<q1, q2>>,
           answer_key |-> <<a1, a2>>, teacher_notes |-> "Revise Act 1"],
          [title |-> "Guilt", questions |-> <<q2, q1>>,
           answer_key |-> <<a2>>, teacher_notes |-> ""] }

\* lines 299-300: what generate_quiz_docx passes on
YearLabel == "Year " \o "10"

TextName == "Macbeth"

\* lines 283-301 of generate_quiz_docx, from the parsed content on: the
\* title defaults to the topic; content without questions raises before any
\* Document exists
generate_quiz_docx(r, parsed, topic) ==
    LET quiz_data == IF ~Truthy(Get(parsed, "title", None))
                     THEN [parsed EXCEPT !.title = topic]
                     ELSE parsed
        request == [IdleRequest EXCEPT !.served = r.served + 1,
                                       !.quiz_data = quiz_data]
    IN  IF Get(quiz_data, "questions", <<>>) = <<>>
        THEN [request EXCEPT !.pc = "done",
                             !.exc = [type |-> "GenerationError"]]
        ELSE [request EXCEPT !.pc = "setup"]

\* create_quiz_docx applying the teacher notes after the document is saved
AfterSaveFirst(pc, r) ==
    CASE pc = "setup" -> "header_footer"
      [] pc = "header_footer" -> "title"
      [] pc = "title" -> "subtitle"
      [] pc = "subtitle" -> "questions_heading"
      [] pc = "questions_heading" ->
            IF Get(r.quiz_data, "questions", <<>>) = <<>>
            THEN "page_break" ELSE "question"
      [] pc = "question" ->
            IF r.qi < Len(r.quiz_data.questions)
            THEN "question" ELSE "page_break"
      [] pc = "page_break" -> "answer_heading"
      [] pc = "answer_heading" -> "answer_table"
      [] pc = "answer_table" -> "save"
      [] pc = "save" -> "notes"
      [] pc = "notes" -> "done"

\* the statement create_quiz_docx goes on to after the one at pc
After(pc, r) ==
    CASE pc = "setup" -> "header_footer"
      [] pc = "header_footer" -> "title"
      [] pc = "title" -> "subtitle"
      [] pc = "subtitle" -> "questions_heading"
      [] pc = "questions_heading" ->
            IF Get(r.quiz_data, "questions", <<>>) = <<>>
            THEN "page_break" ELSE "question"
      [] pc = "question" ->
            IF r.qi < Len(r.quiz_data.questions)
            THEN "question" ELSE "page_break"
      [] pc = "page_break" -> "answer_heading"
      [] pc = "answer_heading" -> "answer_table"
      [] pc = "answer_table" -> "notes"
      [] pc = "notes" -> "save"
      [] pc = "save" -> "done"

\* a setup_document that hands every caller the Document of a build already
\* under way, when there is one
SingletonDocument(rs, w) ==
    LET others == {v \in Workers \ {w} : rs[v].doc # NoDocument}
    IN  IF others = {} THEN setup_document("professional_minimal").doc
        ELSE rs[CHOOSE v \in others : TRUE].doc

\* line 191: the Document of a build is the one its own setup_document call
\* returned, whatever the other workers hold
NewDocument(rs, w) == setup_document("professional_minimal").doc

\* lines 250-252: doc.save(buffer) writes the parts into a zip archive, and
\* the archive stamps each entry with the local time of the write
Serialize(d, now) == [type |-> "BytesIO", parts |-> d, date_time |-> now]

\* python-docx's Document.save as both callers use it (docx_styles.py line
\* 1398, quiz_generator.py line 251): the archive is written to the target,
\* a path or a stream; when the write fails the error leaves save and the
\* caller has no archive
save(d, target, now, fails) ==
    IF fails THEN [exc |-> [type |-> "OSError"], out |-> NoOut]
    ELSE [exc |-> NoExc, out |-> [Serialize(d, now) EXCEPT !.type = target]]

\* a save_document that reports success whatever doc.save did
save_document_quiet(d, filepath, now, fails) ==
    [exc |-> NoExc, file |-> save(d, filepath, now, fails).out,
     printed |-> <<"[SUCCESS] Document saved: " \o filepath>>]

\* lines 1390-1399: save_document calls doc.save(filepath) and then prints
\* the success line; an error of doc.save passes through it, and the print
\* is not reached
save_document(d, filepath, now, fails) ==
    LET res == save(d, filepath, now, fails)
    IN  IF res.exc # NoExc
        THEN [exc |-> res.exc, file |-> NoOut, printed |-> <<>>]
        ELSE [exc |-> NoExc, file |-> res.out,
              printed |-> <<"[SUCCESS] Document saved: " \o filepath>>]

\* the request once ops have been applied to its Document
Applied(r, d, ops, pc) ==
    [r EXCEPT !.doc = d, !.log = @ \o ops, !.pc = After(pc, r)]

\* one statement of create_quiz_docx (lines 191-254) for worker w's request
QuizStep(rs, w, now, fails) ==
    LET r == rs[w]
        q == r.quiz_data
        d == r.doc
    IN  CASE r.pc = "setup" ->
                Applied(r, NewDocument(rs, w), <<"setup_document">>, r.pc)
          [] r.pc = "header_footer" ->
                Applied(r, add_header_footer(d, YearLabel, TextName, "Quiz",
                                             TRUE).doc,
                        <<"add_header_footer">>, r.pc)
          [] r.pc = "title" ->
                Applied(r, add_title(d, "Quiz: "
                                        \o Get(q, "title", "Assessment"),
                                     TRUE).doc,
                        <<"add_title">>, r.pc)
          [] r.pc = "subtitle" ->
                Applied(r, add_subtitle(d, TextName, TRUE).doc,
                        <<"add_subtitle">>, r.pc)
          [] r.pc = "questions_heading" ->
                Applied(r, add_subsection_heading(d, "Questions").doc,
                        <<"add_subsection_heading">>, r.pc)
          [] r.pc = "question" ->
                LET res == QuestionBlocks(d, <<q.questions[r.qi]>>)
                IN  IF res.exc # NoExc
                    THEN [r EXCEPT !.doc = res.doc, !.exc = res.exc,
                                   !.pc = "done"]
                    ELSE [Applied(r, res.doc,
                                  <<"add_question", "add_paragraph">>, r.pc)
                            EXCEPT !.qi = r.qi + 1]
          [] r.pc = "page_break" ->
                Applied(r, add_page_break(d).doc, <<"add_page_break">>, r.pc)
          [] r.pc = "answer_heading" ->
                Applied(r, add_subsection_heading(d, "Answer Key").doc,
                        <<"add_subsection_heading">>, r.pc)
          [] r.pc = "answer_table" ->
                LET res == AnswerKeyTable(d, AnswerRows(
                                Get(q, "answer_key", <<>>)))
                IN  Applied(r, res.doc,
                            IF res.doc # d THEN <<"add_content_table">>
                            ELSE <<>>, r.pc)
          [] r.pc = "notes" ->
                LET d1 == TeacherNotes(d, q)
                IN  Applied(r, d1,
                            IF d1 # d
                            THEN <<"add_horizontal_rule",
                                   "add_subsection_heading",
                                   "add_body_paragraph">>
                            ELSE <<>>, r.pc)
          [] r.pc = "save" ->
                LET res == save(d, "BytesIO", now, fails)
                IN  IF res.exc # NoExc
                    THEN [r EXCEPT !.exc = res.exc, !.pc = "done"]
                    ELSE [Applied(r, d, <<"save">>, r.pc)
                            EXCEPT !.out = res.out]

\* a worker is given a request: generate_quiz_docx runs up to the call of
\* create_quiz_docx; what an earlier request left is gone
StartRequest(w) ==
    /\ requests[w].pc \in {"idle", "done"}
    /\ requests[w].served < MaxRequests
    /\ \E parsed \in ParsedInputs :
        requests' = [requests EXCEPT
                        ![w] = generate_quiz_docx(requests[w], parsed, "Themes")]
    /\ UNCHANGED <<doc, held, exc, call, ret, ncalls, clock, appVars>>

\* a worker runs the next statement of create_quiz_docx
Step(w) ==
    /\ requests[w].pc \notin {"idle", "done"}
    /\ \E fails \in IF requests[w].pc = "save" THEN BOOLEAN ELSE {FALSE} :
        requests' = [requests EXCEPT
                        ![w] = QuizStep(requests, w, clock, fails)]
    /\ UNCHANGED <<doc, held, exc, call, ret, ncalls, clock, appVars>>

\* time passes
Tick ==
    /\ clock < MaxClock
    /\ clock' = clock + 1
    /\ UNCHANGED <<doc, held, exc, call, ret, ncalls, requests, appVars>>

NextRequests ==
    \/ \E w \in Workers : StartRequest(w)
    \/ \E w \in Workers : Step(w)
    \/ Tick

SpecRequests == Init /\ [][NextRequests]_vars

\* save_document on the held document, to a path that may or may not be
\* writable
SaveDocument ==
    /\ held
    /\ ncalls < MaxCalls
    /\ \E filepath \in {"quiz.docx"}, fails \in BOOLEAN :
        LET res == save_document(doc, filepath, clock, fails)
        IN  /\ exc' = res.exc
            /\ ret' = NoRet
            /\ call' = [op |-> "save_document", filepath |-> filepath]
            /\ host' = [stdout |-> host.stdout \o res.printed,
                        file |-> IF res.exc = NoExc THEN res.file
                                 ELSE host.file]
    /\ ncalls' = ncalls + 1
    /\ UNCHANGED <<doc, held, requests, clock, llm, session_state>>

\* both ways a document is persisted: save_document on a held document, and
\* the last statement of create_quiz_docx in a generation request
NextSave ==
    \/ SetupDocument
    \/ SaveDocument
    \/ StartRequest(1)
    \/ Step(1)
    \/ Tick

SpecSave == Init /\ [][NextSave]_vars

-----------------------------------------------------------------------------
(* The language-model client: GeminiClient.generate (llm_client.py)        *)

\* s[:n]
Slice(s, n) == SubSeq(s, 1, Min(n, Len(s)))

\* a generate that tests for the API-key words before the rate-limit words
Classify_key_first(str_e) ==
    LET error_msg == Lower(str_e)
    IN  IF Contains(error_msg, "invalid") /\ Contains(error_msg, "key")
        THEN [type |-> "GenerationError",
              message |-> "Invalid API key. Please check your Gemini API "
                          \o "key in Streamlit secrets."]
        ELSE IF Contains(error_msg, "api_key")
                    \/ Contains(error_msg, "api key")
        THEN [type |-> "GenerationError",
              message |-> "API key issue: " \o Slice(str_e, 200)]
        ELSE IF Contains(error_msg, "rate") \/ Contains(error_msg, "quota")
        THEN [type |-> "RateLimitError",
              message |-> "Rate limit reached. Please wait a few minutes "
                          \o "and try again. (Details: "
                          \o Slice(str_e, 200) \o ")"]
        ELSE IF Contains(error_msg, "safety")
                    \/ Contains(error_msg, "blocked")
        THEN [type |-> "ContentFilterError",
              message |-> "Content was filtered. Try rephrasing the topic."]
        ELSE [type |-> "GenerationError",
              message |-> "Generation failed: " \o Slice(str_e, 300)]

\* lines 62-81: the except clause of generate; str_e is str(e), the message
\* of the exception the remote call raised
Classify(str_e) ==
    LET error_msg == Lower(str_e)
        full_error == str_e
    IN  IF Contains(error_msg, "rate") \/ Contains(error_msg, "quota")
        THEN [type |-> "RateLimitError",
              message |-> "Rate limit reached. Please wait a few minutes "
                          \o "and try again. (Details: "
                          \o Slice(full_error, 200) \o ")"]
        ELSE IF Contains(error_msg, "invalid") /\ Contains(error_msg, "key")
        THEN [type |-> "GenerationError",
              message |-> "Invalid API key. Please check your Gemini API "
                          \o "key in Streamlit secrets."]
        ELSE IF Contains(error_msg, "api_key")
                    \/ Contains(error_msg, "api key")
        THEN [type |-> "GenerationError",
              message |-> "API key issue: " \o Slice(full_error, 200)]
        ELSE IF Contains(error_msg, "safety")
                    \/ Contains(error_msg, "blocked")
        THEN [type |-> "ContentFilterError",
              message |-> "Content was filtered. Try rephrasing the topic."]
        ELSE [type |-> "GenerationError",
              message |-> "Generation failed: " \o Slice(full_error, 300)]

\* lines 53-81: generate makes the remote call once; what the call returned
\* is returned, and what it raised is classified and raised in its place.
\* remote is what the service does with the request: [ok, text, message]
generate(remote) ==
    IF remote.ok
    THEN [remote |-> remote, attempts |-> 1, exc |-> NoExc,
          text |-> remote.text]
    ELSE [remote |-> remote, attempts |-> 1,
          exc |-> Classify(remote.message), text |-> ""]

\* the words the messages of the service are made of
MessageWords ==
    {"Rate", "quota", "Invalid", "key", "API_KEY", "api key", "SAFETY",
     "blocked", "timeout", "generate", "503"}

\* the longest detail an error message carries
MaxDetail == 300

\* what the service can do with a request: answer, or raise with a message;
\* of the two long messages one has its only rule word past the part of the
\* message that is quoted
RemoteOutcomes ==
    {[ok |-> TRUE, text |-> t, message |-> ""] :
        t \in {"", "## Quiz: Ambition"}}
    \cup {[ok |-> FALSE, text |-> "", message |-> a \o " " \o b] :
            a \in MessageWords \cup {""}, b \in MessageWords}
    \cup {[ok |-> FALSE, text |-> "", message |-> m] :
            m \in {"", Repeat("x", MaxDetail + 1),
                   Repeat("x", MaxDetail) \o " quota"}}

\* a caller asks the client for content
Generate ==
    /\ \E remote \in RemoteOutcomes : llm' = generate(remote)
    /\ UNCHANGED <<doc, held, exc, call, ret, ncalls, requests, clock, host,
                   session_state>>

NextLLM == Generate

SpecLLM == Init /\ [][NextLLM]_vars

-----------------------------------------------------------------------------
(* The web application: the session, the login page (utils/auth.py,        *)
(* app.py) and the Generate page (pages/1_Generate.py)                     *)

\* st.session_state.get(key, default)
SessionGet(s, key, default) == IF key \in s.keys THEN s[key] ELSE default

\* st.session_state.key = value
SessionSet(s, key, value) ==
    [s EXCEPT !.keys = @ \cup {key}, ![key] = value]

\* st.session_state.pop(key, None)
SessionPop(s, key) == [s EXCEPT !.keys = @ \ {key}, ![key] = NewSession[key]]

\* str.strip(), for the blank: what lies between the first and the last
\* character that is not a blank
Strip(s) ==
    LET inked == {i \in 1..Len(s) : SubSeq(s, i, i) # " "}
    IN  IF inked = {} THEN ""
        ELSE SubSeq(s, CHOOSE i \in inked : \A j \in inked : i <= j,
                       CHOOSE i \in inked : \A j \in inked : i >= j)

\* str.replace(old, new) for a single character old, from position i on
RECURSIVE ReplaceFrom(_, _, _, _)
ReplaceFrom(s, i, old, new) ==
    IF i > Len(s) THEN ""
    ELSE (IF SubSeq(s, i, i) = old THEN new ELSE SubSeq(s, i, i))
            \o ReplaceFrom(s, i + 1, old, new)

Replace(s, old, new) == ReplaceFrom(s, 1, old, new)

\* auth.py lines 14-21: st.secrets.auth.allowed_emails as the deployment
\* configures it, one address in mixed case and one entered with blanks
get_allowed_emails ==
    <<"Teacher@School.edu", " pad@school.edu ", "head@school.edu">>

\* auth.py lines 32-39
check_authentication(s) == SessionGet(s, "authenticated", FALSE)

\* an authenticate_user that records the address before it is checked
authenticate_user_eager(s, email, now) ==
    [session |-> SessionSet(SessionSet(SessionSet(s,
                    "authenticated", TRUE),
                    "user_email", Lower(Strip(email))),
                    "login_time", now),
     ret |-> TRUE]

\* auth.py lines 42-61: the address is stripped and lower-cased, the
\* entries of the allowlist are lower-cased only
authenticate_user(s, email, now) ==
    LET stripped == Lower(Strip(email))
        allowed_emails == {Lower(get_allowed_emails[i]) :
                                i \in DOMAIN get_allowed_emails}
    IN  IF stripped \in allowed_emails
        THEN [session |-> SessionSet(SessionSet(SessionSet(s,
                            "authenticated", TRUE),
                            "user_email", stripped),
                            "login_time", now),
              ret |-> TRUE]
        ELSE [session |-> s, ret |-> FALSE]

\* what is typed into the login form
EmailInputs ==
    {"", "teacher@school.edu", "  Teacher@School.EDU ", "pad@school.edu",
     " pad@school.edu ", "head@school.edu", "intruder@school.edu",
     "teacher@school.edu.evil.org"}

\* a python bool as a return value
Bool(b) == Ret("bool", IF b THEN 1 ELSE 0)

\* app.py lines 25-28 and auth.py lines 79-89: the login form is shown to a
\* session that is not authenticated; an empty address is refused before
\* authenticate_user is called
Login ==
    /\ ~check_authentication(session_state)
    /\ \E email \in EmailInputs :
        LET r == IF email = "" THEN [session |-> session_state, ret |-> FALSE]
                 ELSE authenticate_user(session_state, email, clock)
        IN  /\ session_state' = r.session
            /\ call' = [op |-> "login", email |-> email]
            /\ ret' = Bool(r.ret)
            /\ exc' = NoExc
    /\ UNCHANGED <<doc, held, ncalls, requests, clock, host, llm>>

\* app.py lines 35-38: the Logout button of an authenticated session
Logout ==
    /\ check_authentication(session_state)
    /\ session_state' = NewSession
    /\ call' = [op |-> "logout"]
    /\ ret' = NoRet
    /\ exc' = NoExc
    /\ UNCHANGED <<doc, held, ncalls, requests, clock, host, llm>>

\* the contents the service answers with here, and what parse_quiz_content
\* (quiz_generator.py lines 110-175) makes of each
QuizContents ==
    <<[content |-> "I cannot write this quiz.",
       parsed |-> [title |-> "", questions |-> <<>>, answer_key |-> <<>>,
                   teacher_notes |-> ""]],
      [content |-> "# Quiz: Ambition\n\n### Question 1\nWho?\n\n"
                   \o "A) Ambition\nB) Fate\nC) Guilt\nD) Love\n---\n"
                   \o "| 1 | A | Act 1 |",
       parsed |-> [title |-> "Ambition",
                   questions |-> <<ParsedQuestion(1, "Who?")>>,
                   answer_key |-> <<[question |-> 1, answer |-> "A",
                                     explanation |-> "Act 1"]>>,
                   teacher_notes |-> ""]],
      [content |-> "### Question 1\nWho?\n\n"
                   \o "A) Ambition\nB) Fate\nC) Guilt\nD) Love\n---\n"
                   \o "## Teacher Notes\nRevise Act 1",
       parsed |-> [title |-> "", questions |-> <<ParsedQuestion(1, "Who?")>>,
                   answer_key |-> <<>>, teacher_notes |-> "Revise Act 1"]]>>

parse_quiz_content(content) ==
    QuizContents[CHOOSE i \in DOMAIN QuizContents :
                    QuizContents[i].content = content].parsed

\* quiz_generator.py lines 275-303, run from the call of the client to the
\* return: the client's error, the error for content without questions and
\* the error of the save leave the function; otherwise the buffer and the
\* raw content are returned
GenerateQuizDocx(topic, remote, now, fails) ==
    LET g == generate(remote)
        failed(e) == [exc |-> e, docx_buffer |-> NoOut, raw_content |-> ""]
    IN  IF g.exc # NoExc THEN failed(g.exc)
        ELSE
        LET r == generate_quiz_docx(IdleRequest, parse_quiz_content(g.text),
                                    topic)
        IN  IF r.exc # NoExc THEN failed(r.exc)
            ELSE
            LET built == create_quiz_docx(r.quiz_data, YearLabel, TextName)
            IN  IF built.exc # NoExc THEN failed(built.exc)
                ELSE
                LET saved == save(built.doc, "BytesIO", now, fails)
                IN  IF saved.exc # NoExc THEN failed(saved.exc)
                    ELSE [exc |-> NoExc, docx_buffer |-> saved.out,
                          raw_content |-> g.text]

\* pages/1_Generate.py lines 119-122, for Year 10 and the text of TextName
GeneratedFilename(topic) ==
    "Year" \o "10" \o "_" \o Replace(TextName, " ", "_")
        \o "_Quiz_" \o Replace(topic, " ", "_") \o ".docx"

\* a page that stores the buffer and the content and not the file name
StoreGenerated_no_filename(s, res, topic) ==
    SessionSet(SessionSet(s, "generated_docx", res.docx_buffer),
               "generated_content", res.raw_content)

\* pages/1_Generate.py lines 116-122: the three entries, one after another
StoreGenerated(s, res, topic) ==
    SessionSet(SessionSet(SessionSet(s,
        "generated_docx", res.docx_buffer),
        "generated_content", res.raw_content),
        "generated_filename", GeneratedFilename(topic))

\* what is typed into the topic field
TopicInputs == {"", "Themes", "Guilt and power"}

\* what the service does with the page's request
PageRemotes ==
    {[ok |-> TRUE, text |-> QuizContents[i].content, message |-> ""] :
        i \in DOMAIN QuizContents}
    \cup {[ok |-> FALSE, text |-> "", message |-> m] :
            m \in {"429 quota exceeded", "503 timeout"}}

\* pages/1_Generate.py lines 27-30 and 103-133: the Generate Quiz button of
\* an authenticated session; an empty topic is refused, every exception of
\* generate_quiz_docx is caught and shown, and the entries are stored when
\* it returned
GenerateQuiz ==
    /\ check_authentication(session_state)
    /\ \E topic \in TopicInputs, remote \in PageRemotes, fails \in BOOLEAN :
        /\ call' = [op |-> "generate_quiz", topic |-> topic]
        /\ IF topic = ""
           THEN /\ exc' = NoExc
                /\ ret' = Bool(FALSE)
                /\ UNCHANGED <<session_state, llm>>
           ELSE \E res \in {GenerateQuizDocx(topic, remote, clock, fails)} :
                /\ exc' = res.exc
                /\ ret' = Bool(res.exc = NoExc)
                /\ llm' = generate(remote)
                /\ session_state' =
                        IF res.exc = NoExc
                        THEN StoreGenerated(session_state, res, topic)
                        ELSE session_state
    /\ UNCHANGED <<doc, held, ncalls, requests, clock, host>>

\* pages/1_Generate.py line 136: the download, the Regenerate button and
\* the preview are shown when the session holds a buffer
Offered(s) == SessionGet(s, "generated_docx", NoOut) # NoOut

\* pages/1_Generate.py lines 151-155: the Regenerate button removes the
\* buffer and the content
Regenerate ==
    /\ check_authentication(session_state)
    /\ Offered(session_state)
    /\ session_state' = SessionPop(SessionPop(session_state,
                            "generated_docx"), "generated_content")
    /\ call' = [op |-> "regenerate"]
    /\ ret' = NoRet
    /\ exc' = NoExc
    /\ UNCHANGED <<doc, held, ncalls, requests, clock, host, llm>>

NextApp ==
    \/ Login
    \/ Logout
    \/ GenerateQuiz
    \/ Regenerate
    \/ Tick

SpecApp == Init /\ [][NextApp]_vars

-----------------------------------------------------------------------------
(* Reading a document back                                                 *)

ParaRuns(para) == {para.runs[i] : i \in DOMAIN para.runs}

\* the text a paragraph shows: its runs' texts, joined
ParaText(para) == Join([i \in DOMAIN para.runs |-> para.runs[i].text], "")

TableCells(t) ==
    {t.rows[r].cells[c] : r \in DOMAIN t.rows, c \in 1..Len(t.col_widths)}

CellRuns(cell) ==
    UNION {ParaRuns(cell.paragraphs[i]) : i \in DOMAIN cell.paragraphs}

BlockRuns(b) ==
    IF b.type = "p" THEN ParaRuns(b)
    ELSE UNION {CellRuns(c) : c \in TableCells(b)}

StoryRuns(story) == UNION {BlockRuns(story[i]) : i \in DOMAIN story}

\* what the blocks of a story hold, block by block
StoryContent(story) ==
    [i \in DOMAIN story |->
        IF story[i].type = "p" THEN [type |-> "p", runs |-> story[i].runs]
        ELSE [type |-> "tbl", rows |-> story[i].rows]]

IsBox(b) ==
    /\ b.type = "tbl"
    /\ Len(b.rows) = 1
    /\ Len(b.col_widths) = 1
    /\ b.col_widths[1] = CONTENT_WIDTH
    /\ b.rows[1].height_rule = None

\* instruction box: shaded, bordered on all four sides
IsInstructionBox(b) ==
    /\ IsBox(b)
    /\ b.rows[1].cells[1].tcBorders = "all"
    /\ b.rows[1].cells[1].shd # NoColour

\* quote box: left border only
IsQuoteBox(b) == IsBox(b) /\ b.rows[1].cells[1].tcBorders = "left"

IsGridTable(b) == b.type = "tbl" /\ b.style = "Table Grid"

IsPrefix(s, t) == Len(s) <= Len(t) /\ SubSeq(t, 1, Len(s)) = s

-----------------------------------------------------------------------------
(* Claims                                                                  *)

\* C1 (as claimed): in a document created with theme T every colour written
\* by setup or by a later call equals T's colour for the corresponding role:
\* base styles (body, heading), header and footer runs (header_footer),
\* instruction box fill and border, quote box fill and border, and the
\* shading of analysis / content table header cells (table_header_bg).
C1_ThemeColours ==
    held =>
        LET T == COLOUR_SCHEMES[doc.colour_scheme]
        IN  /\ doc.styles["Normal"].colour = T.body
            /\ \A n \in {"Title", "Subtitle", "Heading 1", "Heading 2",
                         "Heading 3"} :
                    doc.styles[n].colour = T.heading
            /\ \A r \in StoryRuns(doc.first_page_header)
                        \cup StoryRuns(doc.header) \cup StoryRuns(doc.footer) :
                    r.colour # NoColour => r.colour = T.header_footer
            /\ \A i \in DOMAIN doc.body :
                LET b == doc.body[i]
                IN  /\ IsInstructionBox(b) =>
                            /\ b.rows[1].cells[1].shd = T.instruction_bg
                            /\ b.rows[1].cells[1].border_colour
                                    = T.instruction_border
                    /\ IsQuoteBox(b) =>
                            /\ b.rows[1].cells[1].shd = T.quote_bg
                            /\ b.rows[1].cells[1].border_colour = T.quote_border
                    /\ IsGridTable(b) =>
                            \A c \in TableCells(b) :
                                c.shd # NoColour => c.shd = T.table_header_bg

\* C2: setup_document with an id that is not a key of COLOUR_SCHEMES raises
\* an error whose message names the id and lists every registered id; no
\* document is returned and no theme is applied in its place.
C2_UnknownSchemeRejected ==
    (call.op = "setup_document"
        /\ call.colour_scheme \notin DOMAIN COLOUR_SCHEMES) =>
        /\ exc.type = "ValueError"
        /\ Contains(exc.message, "Unknown colour scheme: " \o call.colour_scheme)
        /\ \A k \in DOMAIN COLOUR_SCHEMES : Contains(exc.message, k)
        /\ ~held
        /\ ret = NoRet
        /\ doc.colour_scheme = None

C2_Witness ==
    /\ call.op = "setup_document"
    /\ call.colour_scheme = "ocean_teal"
    /\ exc.type = "ValueError"

\* the three stories as one add_header_footer call with the last call's
\* arguments leaves them on a fresh document of the same theme
FreshHeaderFooter ==
    add_header_footer(setup_document(doc.colour_scheme).doc, call.year_level,
                      call.unit_name, call.doc_type, call.include_name).doc

\* C3 (as claimed): after add_header_footer has been called again on the same
\* document, the first-page header, the running header and the footer equal
\* what a single call with the last arguments produces on a fresh document.
\* Compared block by block on what each block holds: a paragraph's runs, a
\* table's cells.
C3_SecondCallReplaces ==
    (held /\ call.op = "add_header_footer") =>
        /\ StoryContent(doc.first_page_header)
                = StoryContent(FreshHeaderFooter.first_page_header)
        /\ StoryContent(doc.header) = StoryContent(FreshHeaderFooter.header)
        /\ StoryContent(doc.footer) = StoryContent(FreshHeaderFooter.footer)

\* where the header text of the last add_header_footer call is shown: the
\* running header's paragraph, and on the first page the left zone of the
\* name table the call appended (include_name) or the header paragraph
HeaderShows(text) ==
    /\ ParaText(doc.header[FirstParagraph(doc.header)]) = text
    /\ LET fp == doc.first_page_header
       IN  IF call.include_name
           THEN /\ fp[Len(fp)].type = "tbl"
                /\ ParaText(fp[Len(fp)].rows[1].cells[1].paragraphs[1]) = text
           ELSE ParaText(fp[FirstParagraph(fp)]) = text

DocTypeSuffix == IF call.doc_type \in {None, ""} THEN "" ELSE " - " \o call.doc_type

\* C4 (as claimed): the header text is "{courseLabel} {unitLabel}", with
\* " - {docType}" appended when a docType is given.
C4_HeaderTextAsClaimed ==
    call.op = "add_header_footer" =>
        HeaderShows(call.year_level \o " " \o call.unit_name \o DocTypeSuffix)

\* C4 (amended): the header text is "{yearLevel} English - {unitLabel}", with
\* " - {docType}" appended when a docType is given, where yearLevel is the
\* course label, prefixed with "Year " unless it already starts with "year"
\* in any letter case.
C4_HeaderText ==
    call.op = "add_header_footer" =>
        LET yl == IF StartsWith(Lower(call.year_level), "year")
                  THEN call.year_level ELSE "Year " \o call.year_level
        IN  HeaderShows(yl \o " English - " \o call.unit_name \o DocTypeSuffix)

C4_Witness ==
    /\ call.op = "add_header_footer"
    /\ call.year_level = "Year 10"
    /\ call.unit_name = "Media Studies"
    /\ call.doc_type = "Quiz"
    /\ call.include_name
    /\ HeaderShows("Year 10 English - Media Studies - Quiz")

\* C5: every call only appends at the end of the body: the body before a
\* call is a prefix of the body after it, so blocks stay in call order and
\* none is removed, replaced or moved.
C5_AppendOnly == [][IsPrefix(doc.body, doc'.body)]_vars

C5_Witness ==
    /\ ncalls >= 2
    /\ Len(doc.body) >= 2
    /\ doc.body[1].type = "tbl"
    /\ LastBlock(doc).type = "p"

\* a table whose every row has been formatted and filled by its primitive
TableBuilt(t) ==
    /\ t.style = "Table Grid"
    /\ \A r \in DOMAIN t.rows : t.rows[r].height_rule = "AUTO"

\* C6 (as claimed): when a primitive call raises, the body is exactly as it
\* was before the call, or holds that call's block completely built.
C6_NoPartialBlock ==
    [][(call'.op # "setup_document" /\ exc'.type # "None") =>
            \/ doc'.body = doc.body
            \/ /\ doc'.body = Append(doc.body, LastBlock(doc'))
               /\ TableBuilt(LastBlock(doc'))]_vars

\* a question record with a number, a text and four options
WellFormed(q) ==
    /\ {"number", "text", "options"} \subseteq DOMAIN q
    /\ Len(q.options) = 4

\* create_quiz_docx was given N well-formed questions and N answers
QuizCase ==
    /\ call.op = "create_quiz_docx"
    /\ \A i \in DOMAIN call.quiz_data.questions :
            WellFormed(call.quiz_data.questions[i])
    /\ Len(call.quiz_data.answer_key) = Len(call.quiz_data.questions)

Heading(b, text) ==
    b.type = "p" /\ b.style = STYLE_HEADING2 /\ ParaText(b) = text

\* where the answer table goes: after the three opening blocks, six blocks
\* per question, the page break and the "Answer Key" heading
AnswerTableAt == 3 + (6 * Len(call.quiz_data.questions)) + 3

Tables(body) == {i \in DOMAIN body : body[i].type = "tbl"}

RowTexts(row) ==
    [c \in DOMAIN row.cells |-> ParaText(row.cells[c].paragraphs[1])]

\* title, subtitle, "Questions", per question its block and its four option
\* lines, the page break, "Answer Key": in this order
QuizOrder ==
    LET questions == call.quiz_data.questions
        b == doc.body
    IN  /\ exc = NoExc
        /\ Len(b) >= AnswerTableAt - 1
        /\ b[1].style = STYLE_TITLE
        /\ ParaText(b[1])
            = "Quiz: " \o Get(call.quiz_data, "title", "Assessment")
        /\ b[2].style = STYLE_SUBTITLE
        /\ ParaText(b[2]) = call.text_name
        /\ Heading(b[3], "Questions")
        /\ \A i \in DOMAIN questions :
            LET at == 3 + (6 * (i - 1)) + 1
            IN  /\ b[at].style = STYLE_QUESTION
                /\ ParaText(b[at])
                    = Str(questions[i].number) \o ". " \o questions[i].text
                /\ \A k \in 1..4 :
                    /\ b[at + k].type = "p"
                    /\ ParaText(b[at + k])
                        = questions[i].options[k][1] \o ") "
                            \o questions[i].options[k][2]
        /\ b[AnswerTableAt - 2].type = "p"
        /\ \E r \in ParaRuns(b[AnswerTableAt - 2]) : r.brk = "page"
        /\ Heading(b[AnswerTableAt - 1], "Answer Key")

\* C7 (as claimed): given N >= 1 questions with four options each and N
\* answers, the body holds the blocks in the order of QuizOrder and then one table
\* with N rows.
C7_QuizBodyAsClaimed ==
    (QuizCase /\ call.quiz_data.questions # <<>>) =>
        /\ QuizOrder
        /\ Tables(doc.body) = {AnswerTableAt}
        /\ Len(doc.body[AnswerTableAt].rows) = Len(call.quiz_data.answer_key)

\* C7 (amended): given N questions with four options each and N answers,
\* the body holds the blocks in the order of QuizOrder and then, for N >= 1,
\* one table with N + 1 rows (the header row Q / Answer / Explanation and
\* one row per answer, in input order); for N = 0 it holds no table.
C7_QuizBody ==
    QuizCase =>
        LET answer_key == call.quiz_data.answer_key
        IN  /\ QuizOrder
            /\ answer_key = <<>> => Tables(doc.body) = {}
            /\ answer_key # <<>> =>
                /\ Tables(doc.body) = {AnswerTableAt}
                /\ Len(doc.body[AnswerTableAt].rows) = Len(answer_key) + 1
                /\ RowTexts(doc.body[AnswerTableAt].rows[1])
                        = <<"Q", "Answer", "Explanation">>
                /\ \A i \in DOMAIN answer_key :
                    RowTexts(doc.body[AnswerTableAt].rows[i + 1])
                        = <<Str(answer_key[i].question), answer_key[i].answer,
                            answer_key[i].explanation>>

C7_Witness ==
    /\ QuizCase
    /\ Len(call.quiz_data.questions) = 2
    /\ ret = Ret("BytesIO", 1)
    /\ doc.body[AnswerTableAt].type = "tbl"
    /\ Len(doc.body[AnswerTableAt].rows) = 3

\* C8: the half-page response area has 18 rows and the full-page one 33,
\* whatever the body already holds.
C8_ResponseRows ==
    /\ (\/ call.op = "add_half_page_response"
        \/ (call.op = "add_extended_response" /\ call.size = "half")) =>
            /\ LastBlock(doc).type = "tbl"
            /\ Len(LastBlock(doc).rows) = 18
    /\ (\/ call.op = "add_full_page_response"
        \/ (call.op = "add_extended_response" /\ call.size = "full")) =>
            /\ LastBlock(doc).type = "tbl"
            /\ Len(LastBlock(doc).rows) = 33

C8_Witness ==
    /\ call.op = "add_full_page_response"
    /\ Len(doc.body) >= 2
    /\ Len(LastBlock(doc).rows) = 33

\* the character count of the longest label of the data
LongestLabel(data) ==
    IF data = <<>> THEN 0
    ELSE CHOOSE n \in {Len(data[i][1]) : i \in DOMAIN data} :
            \A i \in DOMAIN data : Len(data[i][1]) <= n

\* C9: in hundredths of a centimetre the left column of an analysis table is
\* min(350, max(100, 23 * L + 50)) wide, L the length of the longest label,
\* the right column 1700 minus that, and every row has these two widths.
C9_ColumnWidths ==
    (call.op = "add_analysis_table" /\ exc = NoExc) =>
        LET t == LastBlock(doc)
            L == LongestLabel(call.data)
            left == Min(350, Max(100, (23 * L) + 50))
        IN  /\ t.col_widths = <<3600 * left, 3600 * (1700 - left)>>
            /\ \A r \in DOMAIN t.rows :
                /\ t.rows[r].cells[1].width = 3600 * left
                /\ t.rows[r].cells[2].width = 3600 * (1700 - left)
                /\ t.rows[r].cells[1].width + t.rows[r].cells[2].width
                        = 3600 * 1700

\* labels ["A", "Connotations"]: 3.26 cm for both rows
C9_Witness ==
    /\ call.op = "add_analysis_table"
    /\ Len(call.data) = 2
    /\ call.data[1][1] = "A"
    /\ call.data[2][1] = "Connotations"
    /\ LastBlock(doc).rows[1].cells[1].width = 3600 * 326
    /\ LastBlock(doc).rows[2].cells[1].width = 3600 * 326

\* a call that appended exactly one block, a table with n rows
AppendedTable(n) ==
    /\ doc'.body = Append(doc.body, LastBlock(doc'))
    /\ LastBlock(doc').type = "tbl"
    /\ Len(LastBlock(doc').rows) = n

\* C10 (as claimed): on an empty input no primitive raises; a table
\* primitive appends no table or a table with zero rows, and add_checklist
\* appends nothing and returns no paragraphs.
C10_EmptyInputsAsClaimed ==
    [][/\ ((call'.op = "add_analysis_table" /\ call'.data = <<>>)
            \/ (call'.op = "add_content_table" /\ call'.rows = <<>>)) =>
                /\ exc' = NoExc
                /\ (doc'.body = doc.body \/ AppendedTable(0))
       /\ (call'.op = "add_checklist" /\ call'.items = <<>>) =>
                /\ exc' = NoExc
                /\ doc'.body = doc.body
                /\ ret' = Ret("list", 0)]_vars

\* C10 (amended): on an empty input no primitive raises; add_analysis_table
\* appends a table with zero rows, add_content_table appends a table holding
\* the header row only (no data row), and add_checklist appends nothing and
\* returns an empty list.
C10_EmptyInputs ==
    [][/\ (call'.op = "add_analysis_table" /\ call'.data = <<>>) =>
                /\ exc' = NoExc
                /\ AppendedTable(0)
       /\ (call'.op = "add_content_table" /\ call'.rows = <<>>) =>
                /\ exc' = NoExc
                /\ AppendedTable(1)
                /\ \A c \in DOMAIN call'.headers :
                        ParaText(LastBlock(doc').rows[1].cells[c].paragraphs[1])
                            = call'.headers[c]
       /\ (call'.op = "add_checklist" /\ call'.items = <<>>) =>
                /\ exc' = NoExc
                /\ doc'.body = doc.body
                /\ ret' = Ret("list", 0)]_vars

C10_Witness ==
    /\ call.op = "add_content_table"
    /\ call.rows = <<>>
    /\ exc = NoExc
    /\ Len(doc.body) >= 2
    /\ Len(LastBlock(doc).rows) = 1

\* C11 (as claimed): no call on a document raises, whatever the shape of its
\* content input; the only failure of the core is the configuration error
\* of setup_document.
C11_NoContentFailure == call.op # "setup_document" => exc = NoExc

\* C12: when setup_document is given an unknown scheme the error reaches the
\* caller, nothing is returned, and the caller holds no document: what it
\* can reach is what it could reach before the call.
C12_NoDocumentOnFailure ==
    (call.op = "setup_document" /\ ~ValidScheme(call.colour_scheme)) =>
        /\ exc.type = "ValueError"
        /\ ret.type # "Document"
        /\ ~held
        /\ doc = Document

C12_Witness ==
    /\ call.op = "setup_document"
    /\ call.colour_scheme = "Academic_Blue"
    /\ exc.type = "ValueError"
    /\ ~held

\* the paragraphs of a story, in order
Paragraphs(story) == SelectSeq(story, LAMBDA b : b.type = "p")

\* C13: after any number of add_header_footer calls the footer holds one
\* paragraph, right-aligned, whose content is exactly one page-number field:
\* the begin marker, the instruction " PAGE " and the end marker, in this
\* order, and no run of static text.
C13_FooterPageField ==
    (held /\ call.op = "add_header_footer") =>
        /\ Len(doc.footer) = 1
        /\ doc.footer[1].type = "p"
        /\ doc.footer[1].alignment = "RIGHT"
        /\ Len(doc.footer[1].runs) = 3
        /\ doc.footer[1].runs[1].fld = "begin"
        /\ doc.footer[1].runs[2].fld = "instr"
        /\ doc.footer[1].runs[2].text = " PAGE "
        /\ doc.footer[1].runs[3].fld = "end"
        /\ \A i \in DOMAIN doc.footer[1].runs :
                doc.footer[1].runs[i].fld = None
                    => doc.footer[1].runs[i].text = ""

\* the field after a second call on the same document
C13_Witness ==
    /\ call.op = "add_header_footer"
    /\ ncalls >= 2
    /\ Len(doc.footer[1].runs) = 3
    /\ doc.footer[1].runs[2].text = " PAGE "

\* the tables of a story, in order
StoryTables(story) == SelectSeq(story, LAMBDA b : b.type = "tbl")

\* the header text the last add_header_footer call was given
CalledHeaderText == HeaderText(call.year_level, call.unit_name, call.doc_type)

\* C14 (as claimed): after a call with include_name = False the first-page
\* header shows only the left-aligned header text and no name line, whatever
\* was called before; after a call with include_name = True it shows, in one
\* table without borders, the header text on the left and "Name: " followed
\* by 26 underscores on the right.
C14_NameLine ==
    (held /\ call.op = "add_header_footer") =>
        LET story == doc.first_page_header
            paras == Paragraphs(story)
            tables == StoryTables(story)
        IN  IF ~call.include_name
            THEN /\ tables = <<>>
                 /\ Len(paras) = 1
                 /\ paras[1].alignment = "LEFT"
                 /\ ParaText(paras[1]) = CalledHeaderText
            ELSE /\ Len(tables) = 1
                 /\ tables[1].tblBorders = "nil"
                 /\ RowTexts(tables[1].rows[1])
                        = <<CalledHeaderText,
                            "Name: " \o "__________________________">>
                 /\ tables[1].rows[1].cells[1].paragraphs[1].alignment = "LEFT"
                 /\ tables[1].rows[1].cells[2].paragraphs[1].alignment = "RIGHT"
                 /\ \A i \in DOMAIN paras : ParaText(paras[i]) = ""

\* the running header is one left-aligned paragraph holding the header text
RunningHeaderPlain ==
    /\ doc.section.different_first_page_header_footer
    /\ Len(doc.header) = 1
    /\ doc.header[1].type = "p"
    /\ doc.header[1].alignment = "LEFT"
    /\ ParaText(doc.header[1]) = CalledHeaderText

\* C15 (as claimed): after add_header_footer, for either value of
\* include_name, the different-first-page setting is on, the running header
\* is a single left-aligned paragraph with the header text and no name
\* field, and what the first-page header holds differs from what the
\* running header holds.
C15_HeadersDifferAsClaimed ==
    (held /\ call.op = "add_header_footer") =>
        /\ RunningHeaderPlain
        /\ StoryContent(doc.first_page_header) # StoryContent(doc.header)

\* C15 (amended): after add_header_footer, for either value of include_name,
\* the different-first-page setting is on and the running header is a single
\* left-aligned paragraph with the header text and no name field. After a
\* call with include_name = True the first-page header holds a name-line
\* table and so differs from the running header; when the first-page header
\* holds no name-line table the two headers hold the same single line and
\* differ only in the running header's paragraph spacing.
C15_RunningHeader ==
    (held /\ call.op = "add_header_footer") =>
        /\ RunningHeaderPlain
        /\ call.include_name =>
            /\ StoryTables(doc.first_page_header) # <<>>
            /\ StoryContent(doc.first_page_header) # StoryContent(doc.header)
        /\ StoryTables(doc.first_page_header) = <<>> =>
            /\ StoryContent(doc.first_page_header) = StoryContent(doc.header)
            /\ doc.first_page_header[1].space_after # doc.header[1].space_after
            /\ doc.header[1].space_after = Pt(6)

C15_Witness ==
    /\ held
    /\ call.op = "add_header_footer"
    /\ ~call.include_name
    /\ RunningHeaderPlain
    /\ StoryContent(doc.first_page_header) = StoryContent(doc.header)

\* what setup_document fixes for a document: its theme, its style table and
\* its page geometry
Frame(d) ==
    [colour_scheme |-> d.colour_scheme,
     colours |-> d.colours,
     styles |-> d.styles,
     page_width |-> d.section.page_width,
     page_height |-> d.section.page_height,
     orientation |-> d.section.orientation,
     top_margin |-> d.section.top_margin,
     bottom_margin |-> d.section.bottom_margin,
     left_margin |-> d.section.left_margin,
     right_margin |-> d.section.right_margin,
     header_distance |-> d.section.header_distance,
     footer_distance |-> d.section.footer_distance]

\* C16: a call on a held document, add_header_footer or any primitive,
\* whether it returns or raises, leaves the document's theme, style table
\* and page geometry as they were.
C16_Frame == [][held => Frame(doc') = Frame(doc)]_vars

\* a themed document that two calls have worked on, the geometry and styles
\* still those of setup_document
C16_Witness ==
    /\ held
    /\ ncalls >= 2
    /\ call.op = "add_header_footer"
    /\ doc.colour_scheme = "warm_humanities"
    /\ doc.body # <<>>
    /\ Frame(doc) = Frame(setup_document("warm_humanities").doc)

\* C17 (as claimed): every document setup_document returns has an A4 page
\* (21.0 x 29.7 cm), top and bottom margins of 1 cm, left and right margins
\* of 2 cm, a header band and a footer band of 0.8 cm each, and a content
\* width of 17 cm; lengths in EMU, 360000 to the centimetre.
C17_Geometry ==
    (held /\ call.op = "setup_document") =>
        /\ doc.section.page_width = 7560000
        /\ doc.section.page_height = 10692000
        /\ doc.section.top_margin = 360000
        /\ doc.section.bottom_margin = 360000
        /\ doc.section.left_margin = 720000
        /\ doc.section.right_margin = 720000
        /\ doc.section.page_width - doc.section.left_margin
                - doc.section.right_margin = 6120000
        /\ doc.section.header_distance = 288000
        /\ doc.section.footer_distance = 288000

\* where an operation occurs in a request's log
Positions(log, op) == {i \in DOMAIN log : log[i] = op}

\* C18: in every generation request the Document is created fresh by
\* setup_document, then given its header and footer, then populated by
\* primitives, then serialized exactly once as the last operation applied
\* to it; nothing is applied after it is persisted, and a later request
\* starts from a Document of its own.
C18_Lifecycle ==
    \A w \in Workers :
        LET r == requests[w]
        IN  /\ (r.doc = NoDocument) <=> (r.log = <<>>)
            /\ r.log # <<>> =>
                /\ r.log[1] = "setup_document"
                /\ Positions(r.log, "setup_document") = {1}
            /\ Len(r.log) >= 2 => r.log[2] = "add_header_footer"
            /\ Positions(r.log, "add_header_footer") \subseteq {2}
            /\ Positions(r.log, "save") \subseteq {Len(r.log)}
            /\ (r.pc = "done" /\ r.doc # NoDocument /\ r.exc = NoExc) =>
                /\ r.log[Len(r.log)] = "save"
                /\ Len(r.log) >= 8
            /\ r.out # NoOut =>
                /\ r.pc = "done"
                /\ r.log[Len(r.log)] = "save"
                /\ r.out.parts = r.doc
            /\ r.pc = "header_footer" =>
                /\ r.log = <<"setup_document">>
                /\ r.doc = setup_document("professional_minimal").doc

\* a worker's second request, persisted, teacher notes included
C18_Witness ==
    \E w \in Workers :
        /\ requests[w].served = 2
        /\ requests[w].pc = "done"
        /\ requests[w].out # NoOut
        /\ requests[w].quiz_data.teacher_notes # ""
        /\ requests[w].log[Len(requests[w].log)] = "save"
        /\ requests[w].log[Len(requests[w].log) - 1] = "add_body_paragraph"

\* the Document create_quiz_docx builds when it runs alone
BuiltAlone(quiz_data) == create_quiz_docx(quiz_data, YearLabel, TextName).doc

\* C19: with the statements of two builds interleaved in any order, each
\* build ends with the Document it produces when run alone, and a Document
\* under way always carries the colours and styles its own setup gave it.
C19_Isolation ==
    \A w \in Workers :
        LET r == requests[w]
        IN  /\ (r.pc \in {"save", "done"} /\ r.doc # NoDocument
                    /\ r.exc = NoExc) =>
                r.doc = BuiltAlone(r.quiz_data)
            /\ r.doc # NoDocument =>
                Frame(r.doc) = Frame(setup_document("professional_minimal").doc)

\* two builds fully populated and not yet returned, of different content
C19_Witness ==
    /\ requests[1].pc = "save"
    /\ requests[2].pc = "save"
    /\ requests[1].quiz_data # requests[2].quiz_data
    /\ requests[1].doc = BuiltAlone(requests[1].quiz_data)
    /\ requests[2].doc = BuiltAlone(requests[2].quiz_data)
    /\ requests[1].doc # requests[2].doc

\* C20 (as claimed): two builds of the same content, each serialized, give
\* identical output.
C20_Deterministic ==
    \A v, w \in Workers :
        (/\ requests[v].out # NoOut
         /\ requests[w].out # NoOut
         /\ requests[v].quiz_data = requests[w].quiz_data) =>
            requests[v].out = requests[w].out

\* the archive doc.save writes for document d at time now
Archive(d, target, now) == [Serialize(d, now) EXCEPT !.type = target]

\* a save_document call either raised the I/O error, printed nothing and
\* wrote nothing, or wrote the archive and printed the success line once
SaveDocumentOutcome ==
    (call'.op = "save_document" /\ ncalls' = ncalls + 1) =>
        \/ /\ exc'.type = "OSError"
           /\ host' = host
        \/ /\ exc' = NoExc
           /\ host'.file = Archive(doc, call'.filepath, clock)
           /\ host'.stdout = Append(host.stdout,
                    "[SUCCESS] Document saved: " \o call'.filepath)

\* the save statement of a request either raised the I/O error, ending the
\* request with no buffer, or returned the buffer with the archive
SaveStepOutcome(w) ==
    (requests[w].pc = "save" /\ requests'[w] # requests[w]) =>
        /\ requests'[w].pc = "done"
        /\ requests'[w].doc = requests[w].doc
        /\ \/ /\ requests'[w].exc.type = "OSError"
              /\ requests'[w].out = NoOut
              /\ requests'[w].log = requests[w].log
           \/ /\ requests'[w].exc = NoExc
              /\ requests'[w].out = Archive(requests[w].doc, "BytesIO", clock)
              /\ requests'[w].log = Append(requests[w].log, "save")

\* C21: a failure of the serialization during save reaches the caller as it
\* was raised: save_document prints no success line and leaves no file,
\* the save statement of create_quiz_docx ends the request with the error
\* and no byte stream, success is reported only with the archive written,
\* and the failed save is not attempted again.
C21_SavePropagates ==
    [][SaveDocumentOutcome /\ \A w \in Workers : SaveStepOutcome(w)]_vars

\* both callers have met the failure: save_document raised with nothing
\* printed, and a fully built request ended with the error and no buffer
C21_Witness ==
    /\ call.op = "save_document"
    /\ exc.type = "OSError"
    /\ host = NoOutput
    /\ requests[1].pc = "done"
    /\ requests[1].exc.type = "OSError"
    /\ requests[1].out = NoOut
    /\ requests[1].doc = BuiltAlone(requests[1].quiz_data)

\* C22: each of the five built-in theme ids maps to a colour record that
\* defines all 11 roles, the five records define the same set of roles, and
\* the colours a document is set up with are such a record.
C22_RegistryComplete ==
    /\ DOMAIN COLOUR_SCHEMES =
            {"professional_minimal", "academic_blue", "nature_green",
             "creative_vibrant", "warm_humanities"}
    /\ Cardinality(Roles) = 11
    /\ \A k \in DOMAIN COLOUR_SCHEMES : DOMAIN COLOUR_SCHEMES[k] = Roles
    /\ \A j, k \in DOMAIN COLOUR_SCHEMES :
            DOMAIN COLOUR_SCHEMES[j] = DOMAIN COLOUR_SCHEMES[k]
    /\ held => DOMAIN doc.colours = Roles

\* a document set up with the last theme of the registry, all roles defined
C22_Witness ==
    /\ held
    /\ call.op = "setup_document"
    /\ call.colour_scheme = "warm_humanities"
    /\ doc.colours = COLOUR_SCHEMES["warm_humanities"]
    /\ Cardinality(DOMAIN doc.colours) = 11

\* C23 (as claimed): every paragraph appended by add_highlighted_text holds
\* a run tagged with one of the two permitted tones, yellow (7) or grey
\* (15); for no value of highlight_colour is the run given another tone or
\* no tone.
C23_HighlightTone ==
    (held /\ call.op = "add_highlighted_text" /\ exc = NoExc) =>
        LET para == doc.body[Len(doc.body)]
        IN  /\ para.type = "p"
            /\ Len(para.runs) = 1
            /\ para.runs[1].text = call.text
            /\ para.runs[1].highlight \in {7, 15}

\* the kinds of the blocks a call appended to the body
AppendedKinds(before, after) ==
    [i \in 1..(Len(after.body) - Len(before.body)) |->
        after.body[Len(before.body) + i].type]

\* the primitives that append exactly one block, with the kind of the block
OneBlock ==
    [add_title |-> "p", add_subtitle |-> "p", add_section_heading |-> "p",
     add_subsection_heading |-> "p", add_question |-> "p",
     add_sub_question |-> "p", add_highlighted_text |-> "p",
     add_horizontal_rule |-> "p", add_page_break |-> "p",
     add_quote_box |-> "tbl", add_answer_box |-> "tbl",
     add_analysis_table |-> "tbl", add_content_table |-> "tbl"]

\* the blocks the claim gives the call c, as a sequence of kinds
ClaimedKinds(c) ==
    CASE c.op \in DOMAIN OneBlock -> <<OneBlock[c.op]>>
      [] c.op \in {"add_name_date_block", "add_instruction_box"} ->
            <<"tbl", "p">>
      [] c.op = "add_blank_lines" ->
            IF c.add_spacing THEN <<"tbl", "p">> ELSE <<"tbl">>
      [] c.op = "add_checklist" -> [i \in 1..Len(c.items) |-> "p"]

\* the primitives the count is claimed for
Counted ==
    DOMAIN OneBlock \cup {"add_name_date_block", "add_instruction_box",
                          "add_blank_lines", "add_checklist"}

\* C24: each primitive appends to the body a number of blocks fixed by the
\* primitive and its arguments, whatever the body held before: one block
\* for the thirteen single-block primitives, a table followed by one empty
\* spacing paragraph for add_name_date_block, add_instruction_box and
\* add_blank_lines with add_spacing = True (the table only with False), and
\* len(items) paragraphs for add_checklist.
C24_BlockCounts ==
    [][(ncalls' = ncalls + 1 /\ call'.op \in Counted) =>
            /\ IsPrefix(doc.body, doc'.body)
            /\ AppendedKinds(doc, doc') = ClaimedKinds(call')
            /\ ClaimedKinds(call') = <<"tbl", "p">> =>
                    LastBlock(doc').runs = <<>>]_vars

\* a spaced blank-lines block appended to a body that already held blocks
C24_Witness ==
    /\ held
    /\ ncalls = 2
    /\ call.op = "add_blank_lines"
    /\ call.add_spacing
    /\ call.num_lines = 2
    /\ Len(doc.body) >= 4
    /\ doc.body[Len(doc.body) - 1].type = "tbl"
    /\ LastBlock(doc).type = "p"

\* C25 (as claimed): GeminiClient.generate retries: a remote call that
\* fails is attempted again, and generate raises to its caller only when
\* the retries have failed too.
C25_RetriesBeforeError ==
    llm.exc # NoExc => llm.attempts >= 2

\* the heights of the rows of a table, added up
RECURSIVE TotalHeight(_)
TotalHeight(rows) ==
    IF rows = <<>> THEN 0 ELSE Head(rows).height + TotalHeight(Tail(rows))

\* what the section of d leaves of the page height once the top and bottom
\* margins and the header and footer bands are taken off
UsableHeight(d) ==
    d.section.page_height - d.section.top_margin - d.section.bottom_margin
        - d.section.header_distance - d.section.footer_distance

\* the first row 0.35 cm high and every other row 0.7 cm high, in EMU
ResponseHeights(table) ==
    \A i \in DOMAIN table.rows :
        table.rows[i].height = IF i = 1 THEN 126000 ELSE 252000

\* C26: the response areas fit the page they are sized for: the rows of
\* add_full_page_response (33 rows, the first 0.35 cm and the others 0.7 cm
\* high) add up to no more than the usable page height, and the rows of
\* add_half_page_response (18 rows) to no more than half of it; the usable
\* height taken from the constants and as the document's section has it.
C26_ResponseFits ==
    held =>
        /\ call.op = "add_full_page_response" =>
            /\ Len(LastBlock(doc).rows) = 33
            /\ ResponseHeights(LastBlock(doc))
            /\ TotalHeight(LastBlock(doc).rows) <= USABLE_HEIGHT
            /\ TotalHeight(LastBlock(doc).rows) <= UsableHeight(doc)
        /\ call.op = "add_half_page_response" =>
            /\ Len(LastBlock(doc).rows) = 18
            /\ ResponseHeights(LastBlock(doc))
            /\ 2 * TotalHeight(LastBlock(doc).rows) <= USABLE_HEIGHT
            /\ 2 * TotalHeight(LastBlock(doc).rows) <= UsableHeight(doc)

\* a full-page response area of 22.75 cm on a page with 26.1 cm usable
C26_Witness ==
    /\ held
    /\ call.op = "add_full_page_response"
    /\ TotalHeight(LastBlock(doc).rows) = 8190000
    /\ USABLE_HEIGHT = 9396000
    /\ UsableHeight(doc) < USABLE_HEIGHT

\* the footer a page of the section shows: with the different-first-page
\* setting on, page 1 shows the first-page footer and every later page the
\* default footer; with it off every page shows the default footer
PageFooter(d, page) ==
    IF page = 1 /\ d.section.different_first_page_header_footer
    THEN d.first_page_footer
    ELSE d.footer

\* the story holds the instruction run of a live PAGE field
HasPageField(story) ==
    \E run \in StoryRuns(story) : run.fld = "instr" /\ run.text = " PAGE "

\* C27 (as claimed): after add_header_footer the live page-number field is
\* in the footer used on the first page as well as in the footer used on
\* the pages after it, so that no page lacks a page number.
C27_PageNumberEveryPage ==
    (held /\ call.op = "add_header_footer") =>
        \A page \in 1..2 : HasPageField(PageFooter(doc, page))

\* the rules of the claim, in order: a rule matches a message that holds
\* every word of one of its alternatives
ClassRules ==
    <<[alternatives |-> {{"rate"}, {"quota"}}, type |-> "RateLimitError"],
      [alternatives |-> {{"invalid", "key"}}, type |-> "GenerationError"],
      [alternatives |-> {{"api_key"}, {"api key"}},
       type |-> "GenerationError"],
      [alternatives |-> {{"safety"}, {"blocked"}},
       type |-> "ContentFilterError"]>>

RuleMatches(rule, lowered) ==
    \E alt \in rule.alternatives : \A word \in alt : Contains(lowered, word)

\* the class of the first rule that matches the lower-cased message,
\* GenerationError when none does
FirstMatch(message) ==
    LET hits == {i \in DOMAIN ClassRules :
                    RuleMatches(ClassRules[i], Lower(message))}
    IN  IF hits = {} THEN "GenerationError"
        ELSE ClassRules[CHOOSE i \in hits : \A j \in hits : i <= j].type

\* C28: every exception the remote call raises inside generate is raised
\* again as exactly one of RateLimitError, ContentFilterError and
\* GenerationError, the class of the first rule its lower-cased message
\* matches ('rate' or 'quota'; 'invalid' and 'key'; 'api_key' or 'api key';
\* 'safety' or 'blocked'; otherwise GenerationError); none escapes as it
\* was and none becomes a normal return, and a call that succeeded returns
\* its text with no exception.
C28_Classified ==
    llm.attempts > 0 =>
        /\ llm.remote.ok => (llm.exc = NoExc /\ llm.text = llm.remote.text)
        /\ ~llm.remote.ok =>
            /\ llm.exc # NoExc
            /\ llm.exc.type \in {"RateLimitError", "ContentFilterError",
                                 "GenerationError"}
            /\ llm.exc.type = FirstMatch(llm.remote.message)
            /\ llm.text = ""

\* a message that matches the first and the third rule, raised as the class
\* of the first
C28_Witness ==
    /\ llm.attempts = 1
    /\ ~llm.remote.ok
    /\ llm.remote.message = "Rate API_KEY"
    /\ llm.exc.type = "RateLimitError"

\* the allowlist with both sides of the comparison treated alike: every
\* entry stripped and lower-cased
NormalisedAllowlist ==
    {Lower(Strip(get_allowed_emails[i])) : i \in DOMAIN get_allowed_emails}

\* the three entries a login writes: whether each is set, and its value
AuthEntries(s) ==
    [key \in {"authenticated", "user_email", "login_time"} |->
        <<key \in s.keys, s[key]>>]

\* an authenticated session holds an address of the allowlist
AuthenticatedIsAllowed ==
    check_authentication(session_state) =>
        /\ {"user_email", "login_time"} \subseteq session_state.keys
        /\ Lower(Strip(session_state.user_email)) \in NormalisedAllowlist

\* the flag is raised only by a login with a matching address, a refused
\* login leaves the three entries as they were, and Logout leaves a session
\* that is not authenticated
AuthStep ==
    /\ (check_authentication(session_state')
            /\ ~check_authentication(session_state)) =>
        /\ call'.op = "login"
        /\ ret' = Bool(TRUE)
        /\ session_state'.user_email = Lower(Strip(call'.email))
        /\ session_state'.user_email \in NormalisedAllowlist
        /\ session_state'.login_time = clock
    /\ (call'.op = "login" /\ ret' = Bool(FALSE)) =>
        AuthEntries(session_state') = AuthEntries(session_state)
    /\ call'.op = "logout" =>
        /\ ~check_authentication(session_state')
        /\ session_state'.keys = {}

\* C29: in every reachable session state, authenticated = true implies
\* that user_email is an address of the allowlist, both sides stripped and
\* lower-cased; the flag is set only by authenticate_user on a matching
\* address, a failed login leaves authenticated, user_email and login_time
\* unchanged, and after Logout check_authentication is false until a new
\* successful login.
C29_AllowlistOnly == []AuthenticatedIsAllowed /\ [][AuthStep]_vars

\* a login typed in capitals and with blanks, accepted after the clock has
\* moved on, the address stored in its normal form
C29_Witness ==
    /\ call = [op |-> "login", email |-> "  Teacher@School.EDU "]
    /\ ret = Bool(TRUE)
    /\ check_authentication(session_state)
    /\ session_state.user_email = "teacher@school.edu"
    /\ session_state.login_time = 1

\* the three entries the Generate page writes: whether each is set, and
\* its value
GeneratedEntries(s) ==
    [key \in {"generated_docx", "generated_content", "generated_filename"} |->
        <<key \in s.keys, s[key]>>]

\* the Document generate_quiz_docx builds from a raw content and a topic
BuiltFrom(content, topic) ==
    BuiltAlone(generate_quiz_docx(IdleRequest, parse_quiz_content(content),
                                  topic).quiz_data)

\* what is offered for download comes from one generation: the buffer
\* holds the document built from the previewed content, for the topic that
\* is in the file name
OfferedFromOneGeneration ==
    Offered(session_state) =>
        /\ {"generated_content", "generated_filename"}
                \subseteq session_state.keys
        /\ \E topic \in TopicInputs \ {""} :
            /\ session_state.generated_filename = GeneratedFilename(topic)
            /\ session_state.generated_docx.parts =
                    BuiltFrom(session_state.generated_content, topic)

\* an attempt that failed or was refused leaves the three entries as they
\* were; the entries change only by a generation that returned, which
\* writes all three from its own result, by Regenerate, which removes the
\* buffer and the content, or by Logout, which removes everything
GeneratedStep ==
    /\ (call'.op = "generate_quiz" /\ ret' = Bool(FALSE)) =>
        GeneratedEntries(session_state') = GeneratedEntries(session_state)
    /\ GeneratedEntries(session_state') # GeneratedEntries(session_state) =>
        \/ /\ call'.op = "generate_quiz"
           /\ call'.topic # ""
           /\ ret' = Bool(TRUE)
           /\ exc' = NoExc
           /\ llm'.exc = NoExc
           /\ session_state'.generated_content = llm'.text
           /\ session_state'.generated_docx =
                Archive(BuiltFrom(llm'.text, call'.topic), "BytesIO", clock)
           /\ session_state'.generated_filename
                = GeneratedFilename(call'.topic)
           /\ {"generated_docx", "generated_content", "generated_filename"}
                \subseteq session_state'.keys
        \/ /\ call'.op = "regenerate"
           /\ ~Offered(session_state')
           /\ "generated_content" \notin session_state'.keys
           /\ session_state'.generated_filename
                = session_state.generated_filename
        \/ /\ call'.op = "logout"
           /\ session_state' = NewSession

\* C30: on the Generate page generated_docx, generated_content and
\* generated_filename are written together and only after
\* generate_quiz_docx returned; an attempt that fails with any exception,
\* or is refused for an empty topic, leaves all three unchanged; after any
\* sequence of generate, failed generate and Regenerate, whenever a
\* document is offered for download its bytes, its preview and its file
\* name come from the same generation.
C30_GeneratedTogether ==
    []OfferedFromOneGeneration /\ [][GeneratedStep]_vars

\* a download of an earlier generation still on offer, whole, after a later
\* attempt for another topic ran into the rate limit
C30_Witness ==
    /\ call = [op |-> "generate_quiz", topic |-> "Themes"]
    /\ ret = Bool(FALSE)
    /\ exc.type = "RateLimitError"
    /\ Offered(session_state)
    /\ session_state.generated_filename
            = "Year10_Macbeth_Quiz_Guilt_and_power.docx"
    /\ session_state.generated_docx.parts =
            BuiltFrom(session_state.generated_content, "Guilt and power")
    /\ session_state.generated_docx.parts #
            BuiltFrom(session_state.generated_content, "Themes")

=============================================================================
